---- MODULE Spec2Model ----
(***************************************************************************)
(* Rootless Android container lifecycle (crates/core/src/container.rs,     *)
(* crates/core/src/image.rs, crates/cli/src/main.rs).                      *)
(*                                                                         *)
(* One Container instance lives in a world made of the two backing images, *)
(* the sandbox directories, the FUSE mount table of the two mount points,  *)
(* the host process table and the pid-file.  Every public operation of the *)
(* Container is one action; the external tools (fuse2fs, fusermount3,      *)
(* fusermount, unshare, nsenter, the filesystem) answer                    *)
(* nondeterministically.                                                   *)
(*                                                                         *)
(* Spec        the lifecycle of one Container: start, stop, discard        *)
(* BootSpec    wait_for_boot on a Container that is started and stopped    *)
(* BootLiveSpec BootSpec with the waiting thread scheduled fairly          *)
(* UseSpec     exec_command, install_apk, launch_app on such a Container   *)
(* RunSpec     the run flow of the command line (main.rs run_app)          *)
(* UnmountSpec fuse2fs_mount / fusermount_unmount called on their own      *)
(* BinderSpec  one BinderfsInstance (crates/sandbox/src/binderfs.rs)       *)
(* ImageSpec   ImagePaths::validate and MountPoints::for_prefix (image.rs) *)
(* ApexSpec    the body of prepare_apex_dirs on the overlay upper layer    *)
(* NsSpec      enter_namespaces / setup_uid_gid_mapping (sandbox/lib.rs)   *)
(* SandboxSpec Prefix::run_in_sandbox and the child it forks (prefix.rs)   *)
(* RegistrySpec one ServiceRegistry (crates/runtime/src/lib.rs)            *)
(* SignalSpec  the run flow with wait_for_signal taken step by step        *)
(***************************************************************************)
EXTENDS Integers, Sequences, FiniteSets, TLC

\* ------------------------------------------------------------------ bounds
MaxProcs == 1        \* host pids available to the model
MaxStack == 1        \* FUSE mounts that can be stacked on one mount point
MaxTimeout == 2      \* largest timeout_secs passed to wait_for_boot
MaxExecSecs == 1     \* longest time, in seconds, one exec_command call takes
MaxUmounts == 2      \* umount(2) calls that unmount() makes on one BinderfsInstance
MaxInstances == 2    \* BinderfsInstance values made one after the other at one mount point
MaxPathLen == 3      \* separators and names in a prefix root
MaxEntries == 3      \* directory entries of system/apex in the system image
MaxServices == 2     \* StubService values made with one service name
MaxSignals == 2      \* SIGINT / SIGTERM deliveries to the process in wait_for_signal

\* --------------------------------------------------------------- constants
None == 0                                \* Option::None for init_pid / pid-file
MinSystemSize == 500 * 1024 * 1024       \* image.rs:63
PollInterval == 2                        \* container.rs:259
Pids == 1 .. MaxProcs
Targets == {"system", "vendor"}
MountDirs == <<"system_mount", "vendor_mount", "rootfs", "overlay_upper", "overlay_work">>
PrefixDirs == {"data", "data/app", "data/data", "data/local/tmp"}
InitPaths == <<"/init", "/system/bin/init", "/bin/init">>
Devices == <<"binder", "hwbinder", "vndbinder">>        \* binderfs.rs:113

VARIABLES
    c,        \* the Container: init_pid, system_mounted, vendor_mounted,
              \* overlay_mounted, pid_file (TRUE = Some(path))
    w,        \* the world: images, init binaries, dirs, mount table,
              \* process table, pid-file content
    kids,     \* pids spawned by this instance (children of this process)
    dropped,  \* the Container's lifetime has ended
    stopped,  \* stop() has been called on this instance
    last,     \* the last operation: name, result, trace of its steps
    wfb,      \* wait_for_boot: pc, timeout, elapsed, polls made, what the
              \* last poll read, result
    run_app,  \* main.rs run_app: where the run flow stands ("off": no flow)
    bfs,      \* a BinderfsInstance and the kernel's view of its mount point
    call,     \* the last call of a function of image.rs that takes no Container
    ns,       \* the process that enters the namespaces (sandbox/src/lib.rs)
    sbx,      \* Prefix::run_in_sandbox: the calling process and the forked child
    registry, \* a ServiceRegistry (crates/runtime/src/lib.rs)
    sig       \* wait_for_signal: SIGNAL_FLAG, the handlers, the waiting loop

vars == <<c, w, kids, dropped, stopped, last, wfb, run_app, bfs, call, ns, sbx, registry, sig>>

\* ----------------------------------------------------------------- helpers
Min(S) == CHOOSE x \in S : \A y \in S : x <= y

Ev(k, t, p, ok) == [k |-> k, t |-> t, p |-> p, ok |-> ok]

Log(s, e) == [s EXCEPT !.tr = Append(@, e)]

Ret(s, res) == [s |-> s, res |-> res]

HasOk(tr, k, t) == \E i \in 1 .. Len(tr) : tr[i].k = k /\ tr[i].t = t /\ tr[i].ok

Pos(tr, k) == IF \E i \in 1 .. Len(tr) : tr[i].k = k
              THEN Min({i \in 1 .. Len(tr) : tr[i].k = k})
              ELSE 0

\* kill(2): succeeds on a live process and on a zombie, ESRCH otherwise
kill_ok(proc, pid) == pid \in DOMAIN proc /\ proc[pid] \in {"alive", "zombie"}

\* ---------------------------------------------------------- image.rs
\* validate with the size check applied to the vendor image as well
validate_sizes_both(s, img) ==
    LET s1 == Log(s, Ev("exists", "system_img", 0, img.system_img.exists))
        s2 == Log(s1, Ev("exists", "vendor_img", 0, img.vendor_img.exists))
        s3 == Log(s2, Ev("metadata", "system_img", img.system_img.len,
                         img.system_img.len >= MinSystemSize))
    IN  IF ~img.system_img.exists THEN Ret(s1, "SystemImageNotFound")
        ELSE IF ~img.vendor_img.exists THEN Ret(s2, "VendorImageNotFound")
        ELSE IF img.system_img.len < MinSystemSize \/ img.vendor_img.len < MinSystemSize
             THEN Ret(s3, "SystemImageTooSmall")
        ELSE Ret(s3, "Ok")

\* img.system_img, img.vendor_img: what is on disk at the two image paths
validate(s, img) ==
    LET s1 == Log(s, Ev("exists", "system_img", 0, img.system_img.exists))
        s2 == Log(s1, Ev("exists", "vendor_img", 0, img.vendor_img.exists))
        s3 == Log(s2, Ev("metadata", "system_img", img.system_img.len,
                         img.system_img.len >= MinSystemSize))
    IN  IF ~img.system_img.exists THEN Ret(s1, "SystemImageNotFound")
        ELSE IF ~img.vendor_img.exists THEN Ret(s2, "VendorImageNotFound")
        ELSE IF img.system_img.len < MinSystemSize THEN Ret(s3, "SystemImageTooSmall")
        ELSE Ret(s3, "Ok")

\* A path is the sequence of its separators ("/") and names, as written.
\* Path::components: the root if the path starts with a separator, then the
\* names; repeated and trailing separators vanish, and so does "." unless it
\* leads a relative path.  Path equality compares components.
IsName(t) == t \notin {"/", "."}

components(p) ==
    IF p = <<>> THEN <<>>
    ELSE IF p[1] = "/" THEN <<"/">> \o SelectSeq(p, IsName)
    ELSE IF p[1] = "." THEN <<".">> \o SelectSeq(p, IsName)
    ELSE SelectSeq(p, IsName)

\* Path::join (PathBuf::push): an absolute argument replaces the path; a
\* separator is added unless the path is empty or ends with one
join(p, rel) ==
    IF Len(rel) > 0 /\ rel[1] = "/" THEN rel
    ELSE IF Len(p) > 0 /\ p[Len(p)] # "/" THEN p \o <<"/">> \o rel
    ELSE p \o rel

\* as for_prefix, with the rootfs at <prefix>/system
for_prefix_rootfs_at_system(prefix_root) ==
    [system_mount |-> join(prefix_root, <<".mounts", "/", "system">>),
     vendor_mount |-> join(prefix_root, <<".mounts", "/", "vendor">>),
     rootfs |-> join(prefix_root, <<"system">>),
     overlay_upper |-> join(prefix_root, <<".overlay", "/", "upper">>),
     overlay_work |-> join(prefix_root, <<".overlay", "/", "work">>)]

for_prefix(prefix_root) ==
    [system_mount |-> join(prefix_root, <<".mounts", "/", "system">>),
     vendor_mount |-> join(prefix_root, <<".mounts", "/", "vendor">>),
     rootfs |-> join(prefix_root, <<"rootfs">>),
     overlay_upper |-> join(prefix_root, <<".overlay", "/", "upper">>),
     overlay_work |-> join(prefix_root, <<".overlay", "/", "work">>)]

\* n = number of create_dir_all calls that succeed before one fails
ensure_dirs(s, n) ==
    LET made == {MountDirs[i] : i \in 1 .. n}
        s1 == [s EXCEPT !.w.dirs = @ \cup made]
    IN  Ret(Log(s1, Ev("ensure_dirs", "", 0, n = Len(MountDirs))),
            IF n = Len(MountDirs) THEN "Ok" ELSE "ErrCreateDir")

\* ---------------------------------------------------------- container.rs
\* as is_running, but a process that has exited counts as gone at once
is_running_until_exit(cont, world) ==
    IF cont.init_pid # None THEN world.proc[cont.init_pid] = "alive" ELSE FALSE

is_running(cont, world) ==
    IF cont.init_pid # None THEN kill_ok(world.proc, cont.init_pid) ELSE FALSE

prepare_prefix_dirs(s, ok) ==
    IF ok THEN Ret(Log([s EXCEPT !.w.dirs = @ \cup PrefixDirs],
                       Ev("prepare_prefix_dirs", "", 0, TRUE)), "Ok")
    ELSE Ret(Log(s, Ev("prepare_prefix_dirs", "", 0, FALSE)), "ErrCreateDir")

\* The body of prepare_apex_dirs on the overlay upper layer.  up: whether
\* <upper>/apex exists and the directories in it; payload: what is at
\* <system_mount>/system/apex (kind "absent", "file" or "dir") and, for a
\* directory, its entries in the order read_dir yields them; fail: the step
\* that fails, if any.
ApexRet(up, res) == [up |-> up, res |-> res]

NoFail == [at |-> 0, what |-> "none"]

\* the loop over the entries, with a directory made for every entry
RECURSIVE apex_entries_of_any_type(_, _, _, _)
apex_entries_of_any_type(up, entries, i, fail) ==
    IF i > Len(entries) THEN ApexRet(up, "Ok")
    ELSE IF fail = [at |-> i, what |-> "entry"] THEN ApexRet(up, "ErrReadEntry")
    ELSE IF fail = [at |-> i, what |-> "file_type"] THEN ApexRet(up, "ErrFileType")
    ELSE IF fail = [at |-> i, what |-> "create"] THEN ApexRet(up, "ErrCreateDir")
    ELSE apex_entries_of_any_type([up EXCEPT !.dirs = @ \cup {entries[i].name}],
                                  entries, i + 1, fail)

\* the loop over the entries from entry i on
RECURSIVE apex_entries(_, _, _, _)
apex_entries(up, entries, i, fail) ==
    IF i > Len(entries) THEN ApexRet(up, "Ok")
    ELSE IF fail = [at |-> i, what |-> "entry"] THEN ApexRet(up, "ErrReadEntry")
    ELSE IF fail = [at |-> i, what |-> "file_type"] THEN ApexRet(up, "ErrFileType")
    ELSE IF entries[i].type # "dir" THEN apex_entries(up, entries, i + 1, fail)
    ELSE IF fail = [at |-> i, what |-> "create"] THEN ApexRet(up, "ErrCreateDir")
    ELSE apex_entries([up EXCEPT !.dirs = @ \cup {entries[i].name}],
                      entries, i + 1, fail)

apex_dirs(up, payload, fail) ==
    IF payload.kind = "absent" THEN ApexRet(up, "Ok")
    ELSE IF fail.what = "upper" THEN ApexRet(up, "ErrCreateDir")
    ELSE LET up1 == [up EXCEPT !.exists = TRUE]
         IN  IF payload.kind = "file" \/ fail.what = "read_dir"
             THEN ApexRet(up1, "ErrReadDir")
             ELSE apex_entries(up1, payload.entries, 1, fail)

\* prepare_apex_dirs as a step of start(): done or failed
prepare_apex_dirs(s, ok) ==
    IF ok THEN Ret(Log([s EXCEPT !.w.dirs = @ \cup {"apex"}],
                       Ev("prepare_apex_dirs", "", 0, TRUE)), "Ok")
    ELSE Ret(Log(s, Ev("prepare_apex_dirs", "", 0, FALSE)), "ErrApex")

generate_linkerconfig(s, ok) ==
    IF ok THEN Ret(Log([s EXCEPT !.w.dirs = @ \cup {"linkerconfig"}],
                       Ev("generate_linkerconfig", "", 0, TRUE)), "Ok")
    ELSE Ret(Log(s, Ev("generate_linkerconfig", "", 0, FALSE)), "ErrLinkerConfig")

\* fuse2fs <image> <mount_point> -o ro,fakeroot
fuse2fs_mount(s, target, toolOk) ==
    LET ok == toolOk /\ s.w.mnt[target] < s.w.stack
        s1 == IF ok THEN [s EXCEPT !.w.mnt[target] = @ + 1] ELSE s
    IN  Ret(Log(s1, Ev("fuse2fs", target, 0, ok)), IF ok THEN "Ok" ELSE "ErrFuse2fs")

\* one unmount tool run: it can only succeed when something is mounted
UnmountRun(s, tool, target, toolOk) ==
    LET ok == toolOk /\ s.w.mnt[target] > 0
        s1 == IF ok THEN [s EXCEPT !.w.mnt[target] = @ - 1] ELSE s
    IN  Ret(Log(s1, Ev(tool, target, 0, ok)), IF ok THEN "Ok" ELSE "Err")

\* u.t3: fusermount3 -u; u.t: fusermount -u ("noexec" = cannot be executed);
\* u.tz: fusermount -uz
fusermount_unmount(s, target, u) ==
    LET r3 == UnmountRun(s, "fusermount3 -u", target, u.t3)
    IN  IF r3.res = "Ok" THEN r3
        ELSE IF u.t = "noexec"
             THEN Ret(Log(r3.s, Ev("fusermount -u", target, 0, FALSE)), "ErrExec")
        ELSE LET r2 == UnmountRun(r3.s, "fusermount -u", target, u.t = "ok")
             IN  IF r2.res = "Ok" THEN r2
                 ELSE LET rz == UnmountRun(r2.s, "fusermount -uz", target, u.tz)
                      IN  IF rz.res = "Ok" THEN rz ELSE Ret(rz.s, "ErrUnmount")

\* as fuse_mount_images, but the vendor flag is never set
fuse_mount_images_no_vendor_flag(s, o) ==
    LET m1 == fuse2fs_mount(s, "system", o.msys)
    IN  IF m1.res # "Ok" THEN Ret(m1.s, "ErrMountSystem")
        ELSE LET s1 == [m1.s EXCEPT !.c.system_mounted = TRUE]
                 m2 == fuse2fs_mount(s1, "vendor", o.mvnd)
             IN  IF m2.res = "Ok" THEN Ret(m2.s, "Ok")
                 ELSE LET un == fusermount_unmount(m2.s, "system", o.um)
                      IN  Ret([un.s EXCEPT !.c.system_mounted = FALSE], "ErrMountVendor")

\* fuse_mount_images with the vendor mount tried whatever the system mount
\* returned
fuse_mount_images_vendor_regardless(s, o) ==
    LET m1 == fuse2fs_mount(s, "system", o.msys)
        s1 == IF m1.res = "Ok" THEN [m1.s EXCEPT !.c.system_mounted = TRUE] ELSE m1.s
        m2 == fuse2fs_mount(s1, "vendor", o.mvnd)
    IN  IF m2.res = "Ok" /\ m1.res = "Ok"
        THEN Ret([m2.s EXCEPT !.c.vendor_mounted = TRUE], "Ok")
        ELSE IF m1.res # "Ok"
             THEN Ret([m2.s EXCEPT !.c.vendor_mounted = (m2.res = "Ok")], "ErrMountSystem")
        ELSE LET un == fusermount_unmount(m2.s, "system", o.um)
             IN  Ret([un.s EXCEPT !.c.system_mounted = FALSE], "ErrMountVendor")

fuse_mount_images(s, o) ==
    LET m1 == fuse2fs_mount(s, "system", o.msys)
    IN  IF m1.res # "Ok" THEN Ret(m1.s, "ErrMountSystem")
        ELSE LET s1 == [m1.s EXCEPT !.c.system_mounted = TRUE]
                 m2 == fuse2fs_mount(s1, "vendor", o.mvnd)
             IN  IF m2.res = "Ok"
                 THEN Ret([m2.s EXCEPT !.c.vendor_mounted = TRUE], "Ok")
                 ELSE LET un == fusermount_unmount(m2.s, "system", o.um)
                      IN  Ret([un.s EXCEPT !.c.system_mounted = FALSE], "ErrMountVendor")

\* the init binary is looked up on the FUSE-mounted system image; bins = the
\* candidates (indices into InitPaths) the image holds
init_exists(world, bins, i) == world.mnt["system"] > 0 /\ i \in bins

\* the if / else if chain of launch_init from candidate i on, looking at
\* every candidate and keeping the last one that exists
RECURSIVE find_init_last_wins(_, _, _)
find_init_last_wins(s, bins, i) ==
    IF i > Len(InitPaths) THEN Ret(s, 0)
    ELSE LET there == init_exists(s.w, bins, i)
             rest == find_init_last_wins(Log(s, Ev("init_exists", InitPaths[i], 0, there)),
                                         bins, i + 1)
         IN  IF there /\ rest.res = 0 THEN Ret(rest.s, i) ELSE rest

\* the if / else if chain of launch_init from candidate i on: the index of
\* the first candidate that exists, 0 when none does
RECURSIVE find_init(_, _, _)
find_init(s, bins, i) ==
    IF i > Len(InitPaths) THEN Ret(s, 0)
    ELSE LET there == init_exists(s.w, bins, i)
             s1 == Log(s, Ev("init_exists", InitPaths[i], 0, there))
         IN  IF there THEN Ret(s1, i) ELSE find_init(s1, bins, i + 1)

launch_init(s, o) ==
    LET found == find_init(s, o.bins, 1)
        ip == found.res
        free == {p \in DOMAIN s.w.proc : s.w.proc[p] = "none"}
    IN  IF ip = 0 THEN Ret(Log(found.s, Ev("find_init", "", 0, FALSE)), "ErrNoInit")
        ELSE LET s0 == Log(found.s, Ev("find_init", InitPaths[ip], 0, TRUE))
             IN  IF ~o.spawn \/ free = {}
                 THEN Ret(Log(s0, Ev("spawn", "", 0, FALSE)), "ErrSpawn")
                 ELSE LET pid == Min(free)
                          s1 == [s0 EXCEPT !.w.proc[pid] = IF o.probe THEN "alive" ELSE "zombie",
                                           !.kids = @ \cup {pid},
                                           !.c.init_pid = pid,
                                           !.c.overlay_mounted = TRUE,
                                           !.tr = Append(@, Ev("spawn", InitPaths[ip], pid, TRUE))]
                          run == is_running(s1.c, s1.w)
                          s2 == Log(s1, Ev("is_running", "", pid, run))
                      IN  IF ~run
                          THEN Ret(Log([s2 EXCEPT !.w.proc[pid] = "reaped"],
                                       Ev("wait_with_output", "", pid, TRUE)), "ErrInitDied")
                          ELSE Ret(s2, "Ok")

persist_pid(s, wr) ==
    IF s.c.init_pid # None /\ s.c.pid_file
    THEN Log(IF wr THEN [s EXCEPT !.w.pidFile = s.c.init_pid] ELSE s,
             Ev("write_pid_file", "", s.c.init_pid, wr))
    ELSE s

\* as start, but the mount-point directories are created before the images
\* are validated
start_dirs_first(s, o) ==
    LET d == ensure_dirs(s, o.dirs)
    IN  IF d.res # "Ok" THEN d
        ELSE LET v == validate(d.s, o.img)
        IN  IF v.res # "Ok" THEN v
        ELSE LET p == prepare_prefix_dirs(v.s, o.prefix)
        IN  IF p.res # "Ok" THEN p
        ELSE LET m == fuse_mount_images(p.s, o)
        IN  IF m.res # "Ok" THEN m
        ELSE LET a == prepare_apex_dirs(m.s, o.apex)
        IN  IF a.res # "Ok" THEN a
        ELSE LET g == generate_linkerconfig(a.s, o.linker)
        IN  IF g.res # "Ok" THEN g
        ELSE LET l == launch_init(g.s, o)
        IN  IF l.res # "Ok" THEN l
        ELSE Ret(persist_pid(l.s, o.wr), "Ok")

\* start with the linker configuration written after init is launched
start_linker_last(s, o) ==
    LET v == validate(s, o.img)
    IN  IF v.res # "Ok" THEN v
        ELSE LET d == ensure_dirs(v.s, o.dirs)
        IN  IF d.res # "Ok" THEN d
        ELSE LET p == prepare_prefix_dirs(d.s, o.prefix)
        IN  IF p.res # "Ok" THEN p
        ELSE LET m == fuse_mount_images(p.s, o)
        IN  IF m.res # "Ok" THEN m
        ELSE LET a == prepare_apex_dirs(m.s, o.apex)
        IN  IF a.res # "Ok" THEN a
        ELSE LET l == launch_init(a.s, o)
        IN  IF l.res # "Ok" THEN l
        ELSE LET g == generate_linkerconfig(l.s, o.linker)
        IN  IF g.res # "Ok" THEN g
        ELSE Ret(persist_pid(g.s, o.wr), "Ok")

start(s, o) ==
    LET v == validate(s, o.img)
    IN  IF v.res # "Ok" THEN v
        ELSE LET d == ensure_dirs(v.s, o.dirs)
        IN  IF d.res # "Ok" THEN d
        ELSE LET p == prepare_prefix_dirs(d.s, o.prefix)
        IN  IF p.res # "Ok" THEN p
        ELSE LET m == fuse_mount_images(p.s, o)
        IN  IF m.res # "Ok" THEN m
        ELSE LET a == prepare_apex_dirs(m.s, o.apex)
        IN  IF a.res # "Ok" THEN a
        ELSE LET g == generate_linkerconfig(a.s, o.linker)
        IN  IF g.res # "Ok" THEN g
        ELSE LET l == launch_init(g.s, o)
        IN  IF l.res # "Ok" THEN l
        ELSE Ret(persist_pid(l.s, o.wr), "Ok")

\* as fuse_unmount_all, but a failed vendor unmount is returned as an error
\* at once
fuse_unmount_all_escalates(s, o) ==
    LET uv == IF s.c.vendor_mounted THEN fusermount_unmount(s, "vendor", o.uv)
              ELSE Ret(s, "Ok")
        sv == IF s.c.vendor_mounted /\ uv.res = "Ok"
              THEN [uv.s EXCEPT !.c.vendor_mounted = FALSE] ELSE uv.s
        ss == IF sv.c.system_mounted
              THEN LET us == fusermount_unmount(sv, "system", o.us)
                   IN  IF us.res # "Ok" THEN us.s
                       ELSE [us.s EXCEPT !.c.system_mounted = FALSE]
              ELSE sv
    IN  IF uv.res # "Ok" THEN Ret(uv.s, uv.res)
        ELSE Ret([ss EXCEPT !.c.overlay_mounted = FALSE], "Ok")

\* as fuse_unmount_all, but the system image is only unmounted once the
\* vendor image is no longer mounted
fuse_unmount_all_vendor_first_only(s, o) ==
    LET sv == IF s.c.vendor_mounted
              THEN LET uv == fusermount_unmount(s, "vendor", o.uv)
                   IN  IF uv.res # "Ok" THEN uv.s
                       ELSE [uv.s EXCEPT !.c.vendor_mounted = FALSE]
              ELSE s
        ss == IF sv.c.system_mounted /\ ~sv.c.vendor_mounted
              THEN LET us == fusermount_unmount(sv, "system", o.us)
                   IN  IF us.res # "Ok" THEN us.s
                       ELSE [us.s EXCEPT !.c.system_mounted = FALSE]
              ELSE sv
    IN  Ret([ss EXCEPT !.c.overlay_mounted = FALSE], "Ok")

\* fuse_unmount_all with the system image unmounted before the vendor image
fuse_unmount_all_system_first(s, o) ==
    LET ss == IF s.c.system_mounted
              THEN LET us == fusermount_unmount(s, "system", o.us)
                   IN  IF us.res # "Ok" THEN us.s
                       ELSE [us.s EXCEPT !.c.system_mounted = FALSE]
              ELSE s
        sv == IF ss.c.vendor_mounted
              THEN LET uv == fusermount_unmount(ss, "vendor", o.uv)
                   IN  IF uv.res # "Ok" THEN uv.s
                       ELSE [uv.s EXCEPT !.c.vendor_mounted = FALSE]
              ELSE ss
    IN  Ret([sv EXCEPT !.c.overlay_mounted = FALSE], "Ok")

\* as fuse_unmount_all, but both mounted flags are cleared whatever the
\* unmount tools returned
fuse_unmount_all_forgets_failures(s, o) ==
    LET sv == IF s.c.vendor_mounted
              THEN fusermount_unmount(s, "vendor", o.uv).s
              ELSE s
        ss == IF sv.c.system_mounted
              THEN fusermount_unmount(sv, "system", o.us).s
              ELSE sv
    IN  Ret([ss EXCEPT !.c.vendor_mounted = FALSE, !.c.system_mounted = FALSE,
                       !.c.overlay_mounted = FALSE], "Ok")

fuse_unmount_all(s, o) ==
    LET sv == IF s.c.vendor_mounted
              THEN LET uv == fusermount_unmount(s, "vendor", o.uv)
                   IN  IF uv.res # "Ok" THEN uv.s
                       ELSE [uv.s EXCEPT !.c.vendor_mounted = FALSE]
              ELSE s
        ss == IF sv.c.system_mounted
              THEN LET us == fusermount_unmount(sv, "system", o.us)
                   IN  IF us.res # "Ok" THEN us.s
                       ELSE [us.s EXCEPT !.c.system_mounted = FALSE]
              ELSE sv
    IN  Ret([ss EXCEPT !.c.overlay_mounted = FALSE], "Ok")

\* SIGTERM, 2 s grace, SIGKILL, waitpid(WNOHANG) on the pid taken from init_pid.
\* o.exits: a live process exits during the grace period;
\* o.swift: a process still alive at SIGKILL is already dead when waitpid looks.
\* The SIGTERM step records the state the target was in.
kill_init(s, pid, o) ==
    LET termOk == kill_ok(s.w.proc, pid)
        s1 == Log(s, Ev("SIGTERM", s.w.proc[pid], pid, termOk))
    IN  IF ~termOk THEN s1
        ELSE LET st1 == IF s.w.proc[pid] = "alive" /\ o.exits THEN "zombie"
                        ELSE s.w.proc[pid]
                 s2 == Log(Log(s1, Ev("sleep", "grace", pid, TRUE)),
                           Ev("SIGKILL", "", pid, TRUE))
                 reap == pid \in s.kids /\ (st1 = "zombie" \/ o.swift)
                 s3 == [s2 EXCEPT !.w.proc[pid] = IF reap THEN "reaped" ELSE "zombie"]
             IN  Log(s3, Ev("waitpid", "", pid, reap))

remove_pid_file(s, rm) ==
    IF s.c.pid_file
    THEN Log(IF rm THEN [s EXCEPT !.w.pidFile = None] ELSE s,
             Ev("remove_pid_file", "", 0, rm \/ s.w.pidFile = None))
    ELSE s

\* as stop, but the pid-file is left alone
stop_keeps_pid_file(s, o) ==
    LET pid == s.c.init_pid
        s0 == [s EXCEPT !.c.init_pid = None]
        s1 == IF pid # None THEN kill_init(s0, pid, o) ELSE s0
    IN  fuse_unmount_all(s1, o)

stop(s, o) ==
    LET pid == s.c.init_pid
        s0 == [s EXCEPT !.c.init_pid = None]
        s1 == IF pid # None THEN kill_init(s0, pid, o) ELSE s0
        un == fuse_unmount_all(s1, o)
    IN  IF un.res # "Ok" THEN un
        ELSE Ret(remove_pid_file(un.s, o.rm), "Ok")

\* as drop, but only the mounted flags are looked at
drop_flags_only(s, o) ==
    IF s.c.system_mounted \/ s.c.vendor_mounted
    THEN stop(s, o)
    ELSE Ret(s, "Ok")

\* as drop, but only init_pid is looked at
drop_pid_only(s, o) ==
    IF s.c.init_pid # None
    THEN stop(s, o)
    ELSE Ret(s, "Ok")

\* impl Drop for Container
drop(s, o) ==
    IF s.c.init_pid # None \/ s.c.system_mounted \/ s.c.vendor_mounted
    THEN stop(s, o)
    ELSE Ret(s, "Ok")

\* std::process::Output: the exit status and what was captured
NoOutput == [status |-> 0 - 1, stdout |-> <<>>]

Out(s, res, out) == [s |-> s, res |-> res, out |-> out]

\* as exec_command, but a non-zero exit status is returned as an error
exec_command_raises(s, command, x) ==
    IF s.c.init_pid = None THEN Out(s, "ErrNotRunning", NoOutput)
    ELSE IF ~x.exec
         THEN Out(Log(s, Ev("nsenter", command, s.c.init_pid, FALSE)), "ErrExec", NoOutput)
    ELSE IF x.status # 0
         THEN Out(Log(s, Ev("nsenter", command, s.c.init_pid, TRUE)), "ErrStatus", NoOutput)
    ELSE Out(Log(Log(s, Ev("nsenter", command, s.c.init_pid, TRUE)),
                 Ev("output", x.stdout, x.status, TRUE)),
             "Ok", [status |-> x.status, stdout |-> x.stdout])

\* nsenter -t <init_pid> --user --mount --uts --ipc --pid -- command args;
\* x.exec: nsenter could be executed; x.status, x.stdout: how the run ended.
\* The value returned in Ok(output) is logged as the "output" step.
exec_command(s, command, x) ==
    IF s.c.init_pid = None THEN Out(s, "ErrNotRunning", NoOutput)
    ELSE IF ~x.exec
         THEN Out(Log(s, Ev("nsenter", command, s.c.init_pid, FALSE)), "ErrExec", NoOutput)
    ELSE Out(Log(Log(s, Ev("nsenter", command, s.c.init_pid, TRUE)),
                 Ev("output", x.stdout, x.status, TRUE)),
             "Ok", [status |-> x.status, stdout |-> x.stdout])

\* an operation that bails with the captured output in its message
bail(s, res, out) == Ret(Log(s, Ev("bail", out.stdout, out.status, FALSE)), res)

ApkDir == "overlay_upper/data/local/tmp"

ApkFile == "overlay_upper/data/local/tmp/install.apk"

\* as install_apk, but the archive is copied before init_pid is looked at
install_apk_copies_first(s, o) ==
    IF ~o.mkdir THEN Ret(Log(s, Ev("create_dir_all", ApkDir, 0, FALSE)), "ErrCreateDir")
    ELSE LET s1 == Log([s EXCEPT !.w.dirs = @ \cup {ApkDir}],
                       Ev("create_dir_all", ApkDir, 0, TRUE))
         IN  IF ~o.copy THEN Ret(Log(s1, Ev("copy", ApkFile, 0, FALSE)), "ErrCopy")
             ELSE LET s2 == Log([s1 EXCEPT !.w.dirs = @ \cup {ApkFile}],
                                Ev("copy", ApkFile, 0, TRUE))
                      e == exec_command(s2, "pm install", o.x)
                  IN  IF e.res # "Ok" THEN Ret(e.s, e.res)
                      ELSE IF e.out.status # 0 THEN bail(e.s, "ErrPmInstall", e.out)
                      ELSE Ret(e.s, "Ok")

\* o.mkdir, o.copy: create_dir_all and fs::copy succeed; o.x: see exec_command
install_apk(s, o) ==
    IF s.c.init_pid = None THEN Ret(s, "ErrNotRunning")
    ELSE IF ~o.mkdir THEN Ret(Log(s, Ev("create_dir_all", ApkDir, 0, FALSE)), "ErrCreateDir")
    ELSE LET s1 == Log([s EXCEPT !.w.dirs = @ \cup {ApkDir}],
                       Ev("create_dir_all", ApkDir, 0, TRUE))
         IN  IF ~o.copy THEN Ret(Log(s1, Ev("copy", ApkFile, 0, FALSE)), "ErrCopy")
             ELSE LET s2 == Log([s1 EXCEPT !.w.dirs = @ \cup {ApkFile}],
                                Ev("copy", ApkFile, 0, TRUE))
                      e == exec_command(s2, "pm install", o.x)
                  IN  IF e.res # "Ok" THEN Ret(e.s, e.res)
                      ELSE IF e.out.status # 0 THEN bail(e.s, "ErrPmInstall", e.out)
                      ELSE Ret(e.s, "Ok")

launch_app(s, x) ==
    LET e == exec_command(s, "am start", x)
    IN  IF e.res # "Ok" THEN Ret(e.s, e.res)
        ELSE IF e.out.status # 0 THEN bail(e.s, "ErrAmStart", e.out)
        ELSE Ret(e.s, "Ok")

\* str::trim on a string given as the sequence of its characters
IsSpace(ch) == ch \in {" ", "\t", "\n", "\r"}

RECURSIVE trim_start(_)
trim_start(str) ==
    IF str # <<>> /\ IsSpace(Head(str)) THEN trim_start(Tail(str)) ELSE str

RECURSIVE trim_end(_)
trim_end(str) ==
    IF str # <<>> /\ IsSpace(str[Len(str)])
    THEN trim_end(SubSeq(str, 1, Len(str) - 1)) ELSE str

trim(str) == trim_end(trim_start(str))

\* as wait_for_boot_poll, but stdout is compared as it was printed
wait_for_boot_poll_untrimmed(s, b, x) ==
    IF b.elapsed > b.timeout THEN [b EXCEPT !.pc = "idle", !.res = "ErrTimeout"]
    ELSE IF ~is_running(s.c, s.w) THEN [b EXCEPT !.pc = "idle", !.res = "ErrInitDied"]
    ELSE LET e == exec_command(s, "getprop", x)
             b1 == [b EXCEPT !.polls = @ + 1, !.exec = e.res, !.out = e.out.stdout,
                             !.elapsed = @ + x.secs]
         IN  IF e.res = "Ok" /\ e.out.stdout = <<"1">>
             THEN [b1 EXCEPT !.pc = "idle", !.res = "Ok"]
             ELSE [b1 EXCEPT !.pc = "sleep"]

\* as wait_for_boot_poll, but the deadline is looked at only after a poll
\* that did not read the success value
wait_for_boot_poll_deadline_last(s, b, x) ==
    IF ~is_running(s.c, s.w) THEN [b EXCEPT !.pc = "idle", !.res = "ErrInitDied"]
    ELSE LET e == exec_command(s, "getprop", x)
             b1 == [b EXCEPT !.polls = @ + 1, !.exec = e.res, !.out = e.out.stdout,
                             !.elapsed = @ + x.secs]
         IN  IF e.res = "Ok" /\ trim(e.out.stdout) = <<"1">>
             THEN [b1 EXCEPT !.pc = "idle", !.res = "Ok"]
             ELSE IF b1.elapsed > b1.timeout
                  THEN [b1 EXCEPT !.pc = "idle", !.res = "ErrTimeout"]
                  ELSE [b1 EXCEPT !.pc = "sleep"]

\* one pass of the loop of wait_for_boot, from the deadline check to the
\* sleep; b = the call's [pc, timeout, elapsed, polls, exec, out, res],
\* x: see exec_command, and x.secs, the time the call took
wait_for_boot_poll(s, b, x) ==
    IF b.elapsed > b.timeout THEN [b EXCEPT !.pc = "idle", !.res = "ErrTimeout"]
    ELSE IF ~is_running(s.c, s.w) THEN [b EXCEPT !.pc = "idle", !.res = "ErrInitDied"]
    ELSE LET e == exec_command(s, "getprop", x)
             b1 == [b EXCEPT !.polls = @ + 1, !.exec = e.res, !.out = e.out.stdout,
                             !.elapsed = @ + x.secs]
         IN  IF e.res = "Ok" /\ trim(e.out.stdout) = <<"1">>
             THEN [b1 EXCEPT !.pc = "idle", !.res = "Ok"]
             ELSE [b1 EXCEPT !.pc = "sleep"]

\* --------------------------------------------------- tool outcomes (inputs)
UmOk == [t3 |-> TRUE, t |-> "ok", tz |-> TRUE]

UmLazy == [t3 |-> FALSE, t |-> "fail", tz |-> TRUE]

UmFail == [t3 |-> FALSE, t |-> "fail", tz |-> FALSE]

\* the unmount outcomes a Container operation is run against: the first tool
\* works, only the lazy unmount works, every attempt fails
UmOutcomes == {UmOk, UmLazy, UmFail}

\* every way the three unmount tool runs can end
UnmountRuns == [t3 : BOOLEAN, t : {"ok", "fail", "noexec"}, tz : BOOLEAN]

\* what a prefix root is written with: the separator, ".", and names that
\* also occur in the paths for_prefix derives
PathTokens == {"/", ".", "rootfs", ".mounts"}

RECURSIVE PathsOfLen(_)
PathsOfLen(n) ==
    IF n = 0 THEN {<<>>}
    ELSE {Append(p, t) : p \in PathsOfLen(n - 1), t \in PathTokens}

Roots == UNION {PathsOfLen(n) : n \in 0 .. MaxPathLen}

\* what can be on disk at an image path: nothing, or a file of a size around
\* the threshold
OnDisk ==
    {[exists |-> FALSE, len |-> 0]}
    \cup {[exists |-> TRUE, len |-> n] :
            n \in {0, MinSystemSize - 1, MinSystemSize, MinSystemSize + 1}}

ImageInputs == [system_img : OnDisk, vendor_img : OnDisk]

\* names of directory entries of system/apex, and what an entry can be
ApexNames == {"com.android.art", "com.android.runtime", "com.android.vndk",
              "apex-info-list.xml"}

EntryTypes == {"dir", "file", "symlink"}

\* the entries of a directory in the order read_dir yields them: no name
\* occurs twice
RECURSIVE EntriesOfLen(_)
EntriesOfLen(n) ==
    IF n = 0 THEN {<<>>}
    ELSE {Append(es, [name |-> nm, type |-> ty]) :
            es \in EntriesOfLen(n - 1), nm \in ApexNames, ty \in EntryTypes}

DistinctNames(es) == \A i, j \in 1 .. Len(es) : es[i].name = es[j].name => i = j

Payloads ==
    {[kind |-> "absent", entries |-> <<>>], [kind |-> "file", entries |-> <<>>]}
    \cup {[kind |-> "dir", entries |-> es] :
            es \in {e \in UNION {EntriesOfLen(n) : n \in 0 .. MaxEntries} :
                       DistinctNames(e)}}

\* the steps of prepare_apex_dirs that can fail on a payload
ApexFails(payload) ==
    {NoFail}
    \cup (IF payload.kind = "dir"
          THEN {[at |-> 0, what |-> "upper"], [at |-> 0, what |-> "read_dir"]}
               \cup {[at |-> i, what |-> x] :
                       i \in 1 .. Len(payload.entries), x \in {"entry", "file_type"}}
               \cup {[at |-> i, what |-> "create"] :
                       i \in {j \in 1 .. Len(payload.entries) :
                                payload.entries[j].type = "dir"}}
          ELSE IF payload.kind = "file" THEN {[at |-> 0, what |-> "upper"]}
          ELSE {})

\* <upper>/apex before the step: not there, or left by an earlier start()
UpperBefore ==
    {[exists |-> FALSE, dirs |-> {}], [exists |-> TRUE, dirs |-> {"com.android.art"}]}

\* ensure_dirs fails at its first directory or not at all
DirOutcomes == {0, Len(MountDirs)}

Absent == [exists |-> FALSE, len |-> 0]

SystemImages == {Absent} \cup [exists : {TRUE}, len : {MinSystemSize - 1, MinSystemSize}]

VendorImages == {Absent, [exists |-> TRUE, len |-> MinSystemSize - 1]}

GoodImages == [system_img |-> [exists |-> TRUE, len |-> MinSystemSize],
               vendor_img |-> [exists |-> TRUE, len |-> MinSystemSize - 1]]

BadImages == {[system_img |-> Absent, vendor_img |-> Absent],
              [GoodImages EXCEPT !.system_img = Absent],
              [GoodImages EXCEPT !.vendor_img = Absent],
              [GoodImages EXCEPT !.system_img.len = MinSystemSize - 1]}

StartOk == [img |-> GoodImages, dirs |-> Len(MountDirs), prefix |-> TRUE,
            msys |-> TRUE, mvnd |-> TRUE, um |-> UmOk, apex |-> TRUE,
            linker |-> TRUE, bins |-> {1}, spawn |-> TRUE, probe |-> TRUE,
            wr |-> TRUE]

\* the inputs of one start(): what is on disk and what each tool answers,
\* one family per step that can fail; the outcome of a step that is never
\* reached keeps the value it has in StartOk
StartOutcomes ==
    {[StartOk EXCEPT !.img = i] : i \in BadImages}
    \cup {[StartOk EXCEPT !.dirs = n] : n \in DirOutcomes}
    \cup {[StartOk EXCEPT !.prefix = FALSE], [StartOk EXCEPT !.msys = FALSE],
          [StartOk EXCEPT !.apex = FALSE], [StartOk EXCEPT !.linker = FALSE]}
    \cup {[StartOk EXCEPT !.mvnd = FALSE, !.um = u] : u \in UmOutcomes}
    \cup {[StartOk EXCEPT !.bins = {}], [StartOk EXCEPT !.spawn = FALSE]}
    \cup {[StartOk EXCEPT !.bins = b] : b \in SUBSET (1 .. 3) \ {{}}}
    \cup {[StartOk EXCEPT !.probe = p, !.wr = x] : p \in BOOLEAN, x \in BOOLEAN}

\* the inputs of one stop(): o.exits, o.swift (see kill_init), the unmount
\* outcomes for the vendor and the system mount point, and whether the
\* pid-file can be removed; the outcome of a step that stop() does not take
\* in this state keeps one value
StopInputs(cont, world) ==
    LET live == cont.init_pid # None /\ world.proc[cont.init_pid] = "alive"
    IN  [exits : IF live THEN BOOLEAN ELSE {TRUE},
         swift : IF live THEN BOOLEAN ELSE {TRUE},
         uv : IF cont.vendor_mounted THEN UmOutcomes ELSE {UmOk},
         us : IF cont.system_mounted THEN UmOutcomes ELSE {UmOk},
         rm : IF cont.pid_file THEN BOOLEAN ELSE {TRUE}]

\* what one nsenter run can bring back.  Nothing can be run inside the
\* namespaces of a process that has exited: nsenter then exits non-zero
\* with nothing on stdout.
Alive(cont, world) == cont.init_pid # None /\ world.proc[cont.init_pid] = "alive"

Run(status, stdout) == [exec |-> TRUE, status |-> status, stdout |-> stdout]

GetpropInputs(cont, world) ==
    {[exec |-> FALSE, status |-> 0 - 1, stdout |-> <<>>], Run(1, <<>>)}
    \cup IF Alive(cont, world)
         THEN {Run(0, <<"1", "\n">>), Run(0, <<" ", "1">>), Run(0, <<"0", "\n">>)}
         ELSE {}

\* the runs X, each with the time it took
Timed(X) ==
    {[exec |-> x.exec, status |-> x.status, stdout |-> x.stdout, secs |-> d] :
        x \in X, d \in 0 .. MaxExecSecs}

ToolInputs(cont, world, good, bad) ==
    IF cont.init_pid = None THEN {Run(0, good)}
    ELSE {[exec |-> FALSE, status |-> 0 - 1, stdout |-> ""], Run(1, "")}
         \cup IF Alive(cont, world) THEN {Run(0, good), Run(1, bad)} ELSE {}

ShInputs(cont, world) == ToolInputs(cont, world, "out", "err")

PmInputs(cont, world) == ToolInputs(cont, world, "Success", "Failure")

AmInputs(cont, world) == ToolInputs(cont, world, "Starting", "Error")

\* the inputs of one install_apk(): the steps after a failed one keep one value
InstallInputs(cont, world) ==
    IF cont.init_pid = None
    THEN {[mkdir |-> TRUE, copy |-> TRUE, x |-> Run(0, "Success")]}
    ELSE {[mkdir |-> FALSE, copy |-> TRUE, x |-> Run(0, "Success")],
          [mkdir |-> TRUE, copy |-> FALSE, x |-> Run(0, "Success")]}
         \cup {[mkdir |-> TRUE, copy |-> TRUE, x |-> x] : x \in PmInputs(cont, world)}

\* ---------------------------------------------------------- binderfs.rs
\* b: the BinderfsInstance (mounted), the kernel's mount at its mount point
\* (kmnt), the device nodes made (devices), the umount(2) calls issued over
\* its lifetime (umounts) and the steps of the last operation (tr)
BLog(b, e) == [b EXCEPT !.tr = Append(@, e)]

BRet(b, res) == [b EXCEPT !.res = res]

\* mount("binder", mount_point, "binder", MS_NODEV | MS_NOEXEC | MS_NOSUID)
mount(b, ok) ==
    IF ok THEN BRet(BLog([b EXCEPT !.mounted = TRUE, !.kmnt = @ + 1],
                         Ev("mount", "binder", 0, TRUE)), "Ok")
    ELSE BRet(BLog(b, Ev("mount", "binder", 0, FALSE)), "ErrMount")

\* the loop of create_devices, going on after a failed ioctl and returning
\* the error at its end
RECURSIVE add_devices_keeps_going(_, _, _)
add_devices_keeps_going(b, i, fail) ==
    IF i > Len(Devices) THEN BRet(b, IF fail = 0 THEN "Ok" ELSE "ErrCreateDevice")
    ELSE IF i = fail
         THEN add_devices_keeps_going(BLog(b, Ev("ioctl", Devices[i], i, FALSE)),
                                      i + 1, fail)
    ELSE add_devices_keeps_going(BLog([b EXCEPT !.devices = Append(@, Devices[i])],
                                      Ev("ioctl", Devices[i], i, TRUE)),
                                 i + 1, fail)

\* the loop of create_devices from device i on; fail = the index of the
\* device whose ioctl returns a negative value, 0 for none
RECURSIVE add_devices(_, _, _)
add_devices(b, i, fail) ==
    IF i > Len(Devices) THEN BRet(b, "Ok")
    ELSE IF i = fail
         THEN BRet(BLog(b, Ev("ioctl", Devices[i], i, FALSE)), "ErrCreateDevice")
    ELSE add_devices(BLog([b EXCEPT !.devices = Append(@, Devices[i])],
                          Ev("ioctl", Devices[i], i, TRUE)),
                     i + 1, fail)

\* o.open: binder-control can be opened; o.fail: see add_devices
create_devices(b, o) ==
    IF ~o.open THEN BRet(BLog(b, Ev("open", "binder-control", 0, FALSE)), "ErrOpen")
    ELSE add_devices(BLog(b, Ev("open", "binder-control", 0, TRUE)), 1, o.fail)

\* as unmount, without the guard on the mounted flag
unmount_unguarded(b, ok) ==
    LET b1 == BLog([b EXCEPT !.umounts = @ + 1], Ev("umount", "", 0, ok /\ b.kmnt > 0))
    IN  IF ok /\ b.kmnt > 0
        THEN BRet([b1 EXCEPT !.kmnt = @ - 1, !.mounted = FALSE], "Ok")
        ELSE BRet(b1, "ErrUnmount")

\* BinderfsInstance::unmount; ok: umount(2) succeeds
unmount(b, ok) ==
    IF ~b.mounted THEN BRet(b, "Ok")
    ELSE LET b1 == BLog([b EXCEPT !.umounts = @ + 1], Ev("umount", "", 0, ok))
         IN  IF ok THEN BRet([b1 EXCEPT !.kmnt = @ - 1, !.mounted = FALSE], "Ok")
             ELSE BRet(b1, "ErrUnmount")

\* impl Drop for BinderfsInstance: the result of unmount() is only printed
drop_instance(b, ok) ==
    [(IF b.mounted THEN unmount(b, ok) ELSE b) EXCEPT !.pc = "gone", !.res = b.res]

\* as new, but an error return leaves the instance built so far as it is
new_without_drop(b, o) ==
    IF ~o.mkdir THEN BRet(BLog(b, Ev("create_dir_all", "binderfs", 0, FALSE)), "ErrCreateDir")
    ELSE LET b0 == BLog(b, Ev("create_dir_all", "binderfs", 0, TRUE))
             m == mount(b0, o.mount)
         IN  IF m.res # "Ok" THEN [m EXCEPT !.pc = "gone"]
             ELSE LET d == create_devices(m, o)
                  IN  IF d.res # "Ok" THEN [d EXCEPT !.pc = "gone"]
                      ELSE [d EXCEPT !.pc = "live"]

\* BinderfsInstance::new; an error return drops the instance built so far
new(b, o) ==
    IF ~o.mkdir THEN BRet(BLog(b, Ev("create_dir_all", "binderfs", 0, FALSE)), "ErrCreateDir")
    ELSE LET b0 == BLog(b, Ev("create_dir_all", "binderfs", 0, TRUE))
             m == mount(b0, o.mount)
         IN  IF m.res # "Ok" THEN drop_instance(m, o.um)
             ELSE LET d == create_devices(m, o)
                  IN  IF d.res # "Ok" THEN drop_instance(d, o.um)
                      ELSE [d EXCEPT !.pc = "live"]

\* setup_binderfs_in_sandbox: new(rootfs/dev/binderfs), then one symlink per
\* device from rootfs/dev; o.link: the index of the symlink that fails, 0
\* for none
RECURSIVE add_links(_, _, _)
add_links(b, i, fail) ==
    IF i > Len(Devices) THEN BRet(b, "Ok")
    ELSE IF i = fail
         THEN BRet(BLog(b, Ev("symlink", Devices[i], i, FALSE)), "ErrSymlink")
    ELSE add_links(BLog(b, Ev("symlink", Devices[i], i, TRUE)), i + 1, fail)

setup_binderfs_in_sandbox(b, o) ==
    LET n == new(b, o)
    IN  IF n.res # "Ok" THEN n
        ELSE LET l == add_links(n, 1, o.link)
             IN  IF l.res # "Ok" THEN drop_instance(l, o.um) ELSE l

NewOk == [mkdir |-> TRUE, mount |-> TRUE, open |-> TRUE, fail |-> 0, link |-> 0,
          um |-> TRUE]

\* the inputs of one new() or setup_binderfs_in_sandbox(): one family per
\* step that can fail, with both answers of the umount made on the way out
NewOutcomes ==
    {NewOk, [NewOk EXCEPT !.mkdir = FALSE], [NewOk EXCEPT !.mount = FALSE]}
    \cup {[NewOk EXCEPT !.open = FALSE, !.um = u] : u \in BOOLEAN}
    \cup {[NewOk EXCEPT !.fail = i, !.um = u] : i \in 1 .. Len(Devices), u \in BOOLEAN}

SetupOutcomes ==
    NewOutcomes
    \cup {[NewOk EXCEPT !.link = i, !.um = u] : i \in 1 .. Len(Devices), u \in BOOLEAN}

\* ------------------------------------------------------- sandbox/lib.rs
\* a u32 as two 16-bit halves
Id(hi, lo) == [hi |-> hi, lo |-> lo]

Digits == <<"0", "1", "2", "3", "4", "5", "6", "7", "8", "9">>

\* u32 Display: the decimal digits, most significant first, by repeated
\* division by ten
RECURSIVE to_string(_)
to_string(id) ==
    LET q_hi == id.hi \div 10
        rest == (id.hi % 10) * 65536 + id.lo
        q_lo == rest \div 10
        d == rest % 10
    IN  IF q_hi = 0 /\ q_lo = 0 THEN <<Digits[d + 1]>>
        ELSE Append(to_string(Id(q_hi, q_lo)), Digits[d + 1])

\* format!("0{}1", id): the mapping line without its separators
format_map_unspaced(id) == <<"0">> \o to_string(id) \o <<"1">>

\* format!("0 {} 1", id)
format_map(id) == <<"0", " ">> \o to_string(id) \o <<" ", "1">>

\* str::split_whitespace: the maximal runs of non-whitespace characters
RECURSIVE split_whitespace(_)
split_whitespace(str) ==
    LET t == trim_start(str)
        n == IF \E i \in 1 .. Len(t) : IsSpace(t[i])
             THEN Min({i \in 1 .. Len(t) : IsSpace(t[i])}) - 1
             ELSE Len(t)
    IN  IF t = <<>> THEN <<>>
        ELSE <<SubSeq(t, 1, n)>> \o split_whitespace(SubSeq(t, n + 1, Len(t)))

NLog(n, k, t, ok) == [n EXCEPT !.tr = Append(@, Ev(k, t, 0, ok))]

\* setup_uid_gid_mapping, writing gid_map before setgroups
setup_uid_gid_mapping_gid_first(n, uid, gid, fail) ==
    LET n1 == NLog(n, "write", "uid_map", fail # 1)
        n2 == NLog([n1 EXCEPT !.uid_map = format_map(uid)], "write", "gid_map", fail # 2)
        n3 == NLog([n2 EXCEPT !.gid_map = format_map(gid)], "write", "setgroups", fail # 3)
    IN  IF fail = 1 THEN [n1 EXCEPT !.res = "ErrWriteUidMap"]
        ELSE IF fail = 2 THEN [n2 EXCEPT !.res = "ErrWriteGidMap"]
        ELSE IF fail = 3 THEN [n3 EXCEPT !.res = "ErrWriteSetgroups"]
        ELSE [n3 EXCEPT !.setgroups = "deny", !.res = "Ok"]

\* fail: which of the three writes fails (1 uid_map, 2 setgroups,
\* 3 gid_map), 0 for none
setup_uid_gid_mapping(n, uid, gid, fail) ==
    LET n1 == NLog(n, "write", "uid_map", fail # 1)
        n2 == NLog([n1 EXCEPT !.uid_map = format_map(uid)], "write", "setgroups", fail # 2)
        n3 == NLog([n2 EXCEPT !.setgroups = "deny"], "write", "gid_map", fail # 3)
    IN  IF fail = 1 THEN [n1 EXCEPT !.res = "ErrWriteUidMap"]
        ELSE IF fail = 2 THEN [n2 EXCEPT !.res = "ErrWriteSetgroups"]
        ELSE IF fail = 3 THEN [n3 EXCEPT !.res = "ErrWriteGidMap"]
        ELSE [n3 EXCEPT !.gid_map = format_map(gid), !.res = "Ok"]

\* enter_namespaces, going on to the mount namespace whatever the mapping
\* returned
enter_namespaces_ignores_mapping(n, o) ==
    LET n0 == NLog(NLog([n EXCEPT !.uid = o.uid, !.gid = o.gid], "getuid", "", TRUE),
                   "getgid", "", TRUE)
        n1 == NLog(n0, "unshare", "CLONE_NEWUSER", o.fail # 1)
        m == setup_uid_gid_mapping([n1 EXCEPT !.userns = TRUE], o.uid, o.gid,
                                   IF o.fail \in 2 .. 4 THEN o.fail - 1 ELSE 0)
        n5 == NLog(m, "unshare", "CLONE_NEWNS", o.fail # 5)
    IN  IF o.fail = 1 THEN [n1 EXCEPT !.res = "ErrUnshareUser"]
        ELSE IF o.fail = 5 THEN [n5 EXCEPT !.res = "ErrUnshareMount"]
        ELSE [n5 EXCEPT !.mntns = TRUE]

\* o.uid, o.gid: what getuid() and getgid() return; o.fail: the step that
\* fails (1 unshare(CLONE_NEWUSER), 2 to 4 the writes of the mapping,
\* 5 unshare(CLONE_NEWNS)), 0 for none
enter_namespaces(n, o) ==
    LET n0 == NLog(NLog([n EXCEPT !.uid = o.uid, !.gid = o.gid], "getuid", "", TRUE),
                   "getgid", "", TRUE)
        n1 == NLog(n0, "unshare", "CLONE_NEWUSER", o.fail # 1)
        m == setup_uid_gid_mapping([n1 EXCEPT !.userns = TRUE], o.uid, o.gid,
                                   IF o.fail \in 2 .. 4 THEN o.fail - 1 ELSE 0)
        n5 == NLog(m, "unshare", "CLONE_NEWNS", o.fail # 5)
    IN  IF o.fail = 1 THEN [n1 EXCEPT !.res = "ErrUnshareUser"]
        ELSE IF m.res # "Ok" THEN m
        ELSE IF o.fail = 5 THEN [n5 EXCEPT !.res = "ErrUnshareMount"]
        ELSE [n5 EXCEPT !.mntns = TRUE, !.res = "Ok"]

\* real ids of the calling process: root, a user, nobody, and the ends of
\* the 16-bit and 32-bit ranges
Ids == {Id(0, 0), Id(0, 9), Id(0, 10), Id(0, 1000), Id(0, 65534), Id(0, 65535),
        Id(1, 0), Id(65535, 65535)}

\* ---------------------------------------------------------- prefix.rs
\* x: the process that calls run_in_sandbox (parent), the child it forks
\* (child: where the child stands; status: what waitpid will report for it)
\* and the steps the two have taken; step p is 0 when the caller took it
\* and 1 when the child did
SLog(x, k, p, ok) == [x EXCEPT !.tr = Append(@, Ev(k, "", p, ok))]

\* Err(e) in the child: error!(..) and std::process::exit(1)
exit_1(x) == [x EXCEPT !.child = "exited", !.status = "Exited(1)"]

\* fork()?: an error returns to the caller, the parent goes on to waitpid,
\* the child to run_in_sandbox_child
run_in_sandbox(x, arg, forked) ==
    LET x0 == SLog([x EXCEPT !.arg = arg], "fork", 0, forked)
    IN  IF ~forked THEN [x0 EXCEPT !.parent = "returned", !.res = "ErrFork"]
        ELSE [x0 EXCEPT !.parent = "waitpid", !.child = "enter_namespaces",
                        !.status = "running"]

\* waitpid(child, None)?: interrupted, or the status of the child that ended
wait_child(x, eintr) ==
    LET x0 == SLog(x, "waitpid", 0, ~eintr)
        res == IF eintr THEN "ErrWaitpid"
               ELSE IF x.status = "Exited(0)" THEN "Ok"
               ELSE IF x.status = "Signaled" THEN "ErrSignaled"
               ELSE "ErrExitCode"
    IN  [x0 EXCEPT !.parent = "returned", !.res = res]

\* one step of run_in_sandbox_child followed by `?`
child_step(x, k, ok, next) ==
    LET x0 == SLog(x, k, 1, ok)
    IN  IF ok THEN [x0 EXCEPT !.child = next] ELSE exit_1(x0)

\* sandbox::exec(command, &exec_args): CString::new(path)? on the command,
\* CString::new(..).unwrap() on every argument, execv
exec(x, ok) ==
    IF x.arg.command_nul THEN exit_1(SLog(x, "CString::new", 1, FALSE))
    ELSE IF x.arg.args_nul
         THEN [SLog(x, "unwrap", 1, FALSE) EXCEPT !.child = "unwinding"]
         ELSE child_step(x, "execv", ok, "command")

\* ---------------------------------------------------------- runtime/lib.rs
\* a HashMap<String, Arc<dyn StubService>> is the set of its entries, one
\* for a key; a service is [name, id], id telling the values of one name apart
contains_key(map, name) == \E e \in map : e.name = name

\* HashMap::insert: the value of a key that is present is replaced
insert(map, name, service) == {e \in map : e.name # name} \cup {service}

\* HashMap::get(name).cloned()
get(map, name) ==
    IF contains_key(map, name) THEN (CHOOSE e \in map : e.name = name).id ELSE None

\* register without the contains_key test
register_replacing(r, service) ==
    [r EXCEPT !.services = insert(@, service.name, service), !.res = "Ok"]

register(r, service) ==
    LET name == service.name
    IN  IF contains_key(r.services, name)
        THEN [r EXCEPT !.res = "ServiceAlreadyRegistered"]
        ELSE [r EXCEPT !.services = insert(@, name, service), !.res = "Ok"]

get_service(r, name) == get(r.services, name)

service_count(r) == Cardinality(r.services)

has_service(r, name) == contains_key(r.services, name)

\* ServiceRegistry::new(), register(ActivityManagerStub)?, register(PackageManagerStub)?
init_minimal_services(r, a, p) ==
    LET r1 == register([r EXCEPT !.services = {}], [name |-> "activity", id |-> a])
        r2 == register(r1, [name |-> "package", id |-> p])
    IN  IF r1.res # "Ok" THEN r1 ELSE r2

\* ---------------------------------------------------------- main.rs
\* g: SIGNAL_FLAG, the signals that have signal_handler installed, where
\* the thread in wait_for_signal stands, and the signals delivered so far
Signals == {"SIGINT", "SIGTERM"}

\* extern "C" fn signal_handler: SIGNAL_FLAG.store(false)
signal_handler(g) == [g EXCEPT !.flag = FALSE]

\* the kernel delivers signal to the process: the handler runs when one is
\* installed, the default action ends the process otherwise
deliver(g, signal) ==
    LET d == [signal |-> signal, handled |-> signal \in g.handlers, at |-> g.pc]
        g1 == [g EXCEPT !.delivered = Append(@, d)]
    IN  IF d.handled THEN signal_handler(g1) ELSE [g1 EXCEPT !.pc = "killed"]

\* one step of the thread in wait_for_signal: the two signal(..) calls,
\* SIGNAL_FLAG.store(true), the load that the while loop tests, the sleep
wait_for_signal_step(g) ==
    IF g.pc = "signal(SIGINT)"
    THEN [g EXCEPT !.handlers = @ \cup {"SIGINT"}, !.pc = "signal(SIGTERM)"]
    ELSE IF g.pc = "signal(SIGTERM)"
    THEN [g EXCEPT !.handlers = @ \cup {"SIGTERM"}, !.pc = "store"]
    ELSE IF g.pc = "store"
    THEN [g EXCEPT !.flag = TRUE, !.pc = "load"]
    ELSE IF g.pc = "load"
    THEN [g EXCEPT !.pc = IF g.flag THEN "sleep" ELSE "returned"]
    ELSE [g EXCEPT !.pc = "load"]

\* ------------------------------------------------------------------ state
Thread == [c |-> c, w |-> w, kids |-> kids, tr |-> <<>>]

Idle == [pc |-> "idle", timeout |-> 0, elapsed |-> 0, polls |-> 0, exec |-> "None",
         out |-> <<>>, res |-> "None"]

\* no BinderfsInstance has been made
NoBinderfs == [pc |-> "none", mounted |-> FALSE, kmnt |-> 0, devices |-> <<>>,
               umounts |-> 0, made |-> 0, op |-> "none", res |-> "Ok", tr |-> <<>>]

\* a new instance at the mount point: what the kernel still has mounted
\* there stays
Fresh(op) == [NoBinderfs EXCEPT !.kmnt = bfs.kmnt, !.made = bfs.made + 1, !.op = op]

\* no function of image.rs has been called
NoCall == [op |-> "none", arg |-> <<>>, out |-> <<>>]

\* the process before enter_namespaces: in the initial namespaces, with no
\* mapping written
NoNamespaces == [pc |-> "none", uid |-> Id(0, 0), gid |-> Id(0, 0), userns |-> FALSE, mntns |-> FALSE,
                 uid_map |-> <<>>, setgroups |-> "allow", gid_map |-> <<>>,
                 res |-> "Ok", tr |-> <<>>]

\* run_in_sandbox has not been called
NoSandbox == [parent |-> "idle", child |-> "none", status |-> "none", res |-> "None",
              arg |-> [redirect |-> FALSE, command_nul |-> FALSE, args_nul |-> FALSE],
              tr |-> <<>>]

\* ServiceRegistry::new(): no service.  done: the services whose register
\* returned Ok on this registry (kept beside the registry, not part of it)
NoRegistry == [services |-> {}, op |-> "new", arg |-> "", res |-> "Ok", done |-> {}]

\* the process before wait_for_signal: SIGNAL_FLAG is false (main.rs:426)
\* and SIGINT and SIGTERM have their default action
NoSignals == [pc |-> "idle", flag |-> FALSE, handlers |-> {}, delivered |-> <<>>]

\* the instance as the next operation finds it
Call(op) == [bfs EXCEPT !.op = op, !.res = "Ok", !.tr = <<>>]

\* the operation op of the Container is called: at any time when no run flow
\* is modelled (run_app = "off"), in the run flow when the flow calls it, and
\* the flow then goes on at next
Flow(op, next) ==
    /\ run_app \in {"off", op}
    /\ run_app' = IF run_app = "off" THEN "off" ELSE next

\* The Container as Container::new(..) leaves it, with or without
\* with_pid_file(..); an earlier invocation may have left its pid-file and
\* its init process behind (main.rs stop_container reads that file). The host
\* has the pids `pids` to give out and lets `stack` mounts pile up on one mount
\* point.
InitHost(pidFiles, flow, pids, stack) ==
    /\ \E pf \in pidFiles :
         c = [init_pid |-> None, system_mounted |-> FALSE, vendor_mounted |-> FALSE,
              overlay_mounted |-> FALSE, pid_file |-> pf]
    /\ \E old \in {"none", "alive", "reaped"} :
         /\ old # "none" => c.pid_file
         /\ w = [dirs |-> {},
                 mnt |-> [t \in Targets |-> 0],
                 stack |-> stack,
                 proc |-> [p \in pids |-> IF p = 1 THEN old ELSE "none"],
                 pidFile |-> IF old = "none" THEN None ELSE 1]
    /\ kids = {}
    /\ dropped = FALSE
    /\ stopped = FALSE
    /\ last = [op |-> "new", res |-> "Ok", tr |-> <<>>, prev |-> <<>>]
    /\ wfb = Idle
    /\ run_app = flow
    /\ bfs = NoBinderfs
    /\ call = NoCall
    /\ ns = NoNamespaces
    /\ sbx = NoSandbox
    /\ registry = NoRegistry
    /\ sig = NoSignals

InitWith(pidFiles, flow) == InitHost(pidFiles, flow, Pids, MaxStack)

Init == InitWith(BOOLEAN, "off")

\* prev: for a discard that follows a start(), how that start() ended
Commit(op, r) ==
    /\ c' = r.s.c
    /\ w' = r.s.w
    /\ kids' = r.s.kids
    /\ last' = [op |-> op, res |-> r.res, tr |-> r.s.tr,
                prev |-> IF op = "drop" /\ last.op = "start"
                         THEN <<last.op, last.res>> ELSE <<>>]

Usable == ~dropped /\ wfb.pc = "idle"

\* in the run flow a failed start() leaves run_app through `?`, which ends
\* the Container's lifetime
Start ==
    /\ Usable
    /\ \E o \in StartOutcomes : Commit("start", start(Thread, o))
    /\ Flow("start", IF last'.res = "Ok" THEN "wait_for_boot" ELSE "drop")
    /\ wfb' = Idle
    /\ UNCHANGED <<dropped, stopped, bfs, call, ns, sbx, registry, sig>>

Stop ==
    /\ Usable
    /\ \E o \in StopInputs(c, w) : Commit("stop", stop(Thread, o))
    /\ Flow("stop", "drop")
    /\ wfb' = Idle
    /\ stopped' = TRUE
    /\ UNCHANGED <<dropped, bfs, call, ns, sbx, registry, sig>>

Drop ==
    /\ Usable
    /\ \E o \in StopInputs(c, w) : Commit("drop", drop(Thread, o))
    /\ Flow("drop", "done")
    /\ dropped' = TRUE
    /\ wfb' = Idle
    /\ UNCHANGED <<stopped, bfs, call, ns, sbx, registry, sig>>

\* main.rs stop_container: container.init_pid = Some(pid read from the pid-file)
AdoptPid ==
    /\ Usable
    /\ run_app = "off"
    /\ last.op = "new"
    /\ c.pid_file
    /\ w.pidFile # None
    /\ c' = [c EXCEPT !.init_pid = w.pidFile]
    /\ last' = [op |-> "adopt", res |-> "Ok", tr |-> <<>>, prev |-> <<>>]
    /\ UNCHANGED <<w, kids, dropped, stopped, wfb, run_app, bfs, call, ns, sbx, registry, sig>>

\* the environment: a running process exits on its own and stays a zombie
\* until its parent waits for it
ProcExit ==
    /\ \E p \in DOMAIN w.proc :
         /\ w.proc[p] = "alive"
         /\ w' = [w EXCEPT !.proc[p] = "zombie"]
    /\ last' = [op |-> "exit", res |-> "Ok", tr |-> <<>>, prev |-> <<>>]
    /\ wfb' = IF wfb.pc = "idle" THEN Idle ELSE wfb
    /\ UNCHANGED <<c, kids, dropped, stopped, run_app, bfs, call, ns, sbx, registry, sig>>

ExecCommand ==
    /\ Usable
    /\ run_app = "off"
    /\ \E x \in ShInputs(c, w) : Commit("exec_command", exec_command(Thread, "sh", x))
    /\ wfb' = Idle
    /\ UNCHANGED <<dropped, stopped, run_app, bfs, call, ns, sbx, registry, sig>>

\* as InstallApk, but in the run flow a failed install_apk leaves run_app
\* the way a failed start() does
InstallApkOrReturn ==
    /\ Usable
    /\ \E o \in InstallInputs(c, w) : Commit("install_apk", install_apk(Thread, o))
    /\ Flow("install_apk", IF last'.res = "Ok" THEN "launch_app" ELSE "drop")
    /\ wfb' = Idle
    /\ UNCHANGED <<dropped, stopped, bfs, call, ns, sbx, registry, sig>>

InstallApk ==
    /\ Usable
    /\ \E o \in InstallInputs(c, w) : Commit("install_apk", install_apk(Thread, o))
    /\ Flow("install_apk", "launch_app")
    /\ wfb' = Idle
    /\ UNCHANGED <<dropped, stopped, bfs, call, ns, sbx, registry, sig>>

LaunchApp ==
    /\ Usable
    /\ \E x \in AmInputs(c, w) : Commit("launch_app", launch_app(Thread, x))
    /\ Flow("launch_app", "wait_for_signal")
    /\ wfb' = Idle
    /\ UNCHANGED <<dropped, stopped, bfs, call, ns, sbx, registry, sig>>

\* wait_for_boot(timeout_secs): start = Instant::now()
WaitForBoot ==
    /\ Usable
    /\ \E t \in 0 .. MaxTimeout :
         wfb' = [Idle EXCEPT !.pc = "loop", !.timeout = t, !.res = "Pending"]
    /\ Flow("wait_for_boot", "wait_for_boot")
    /\ last' = [op |-> "wait_for_boot", res |-> "Ok", tr |-> <<>>, prev |-> <<>>]
    /\ UNCHANGED <<c, w, kids, dropped, stopped, bfs, call, ns, sbx, registry, sig>>

\* one pass of the loop body up to the sleep; in the run flow the result of
\* wait_for_boot is printed and install_apk comes next
WaitForBootPoll ==
    /\ wfb.pc = "loop"
    /\ \E x \in Timed(GetpropInputs(c, w)) : wfb' = wait_for_boot_poll(Thread, wfb, x)
    /\ run_app' = IF run_app = "wait_for_boot" /\ wfb'.pc = "idle" THEN "install_apk" ELSE run_app
    /\ UNCHANGED <<c, w, kids, dropped, stopped, last, bfs, call, ns, sbx, registry, sig>>

\* std::thread::sleep(2 s) at the end of the loop body
WaitForBootSleep ==
    /\ wfb.pc = "sleep"
    /\ wfb' = [wfb EXCEPT !.pc = "loop", !.elapsed = @ + PollInterval]
    /\ UNCHANGED <<c, w, kids, dropped, stopped, last, run_app, bfs, call, ns, sbx, registry, sig>>

Next ==
    \/ Start
    \/ Stop
    \/ Drop
    \/ AdoptPid
    \/ ProcExit

Spec == Init /\ [][Next]_vars

\* start() called again on the same Container: the host has a pid to give to
\* a second init and the mount points take a second mount
RestartInit == InitHost({FALSE}, "off", 1 .. MaxProcs + 1, MaxStack + 1)

RestartNext ==
    \/ Start
    \/ Stop
    \/ Drop
    \/ ProcExit

RestartSpec == RestartInit /\ [][RestartNext]_vars

\* the operations that take &self leave the Container as it is, so each
\* group of them is run against the lifecycle on its own
BootNext ==
    \/ Start
    \/ Stop
    \/ ProcExit
    \/ WaitForBoot
    \/ WaitForBootPoll
    \/ WaitForBootSleep

BootSpec == Init /\ [][BootNext]_vars

\* the thread that called wait_for_boot keeps running: every exec_command
\* call returns and every sleep ends
BootLiveSpec ==
    Init /\ [][BootNext]_vars /\ WF_vars(WaitForBootPoll) /\ WF_vars(WaitForBootSleep)

UseNext ==
    \/ Start
    \/ Stop
    \/ AdoptPid
    \/ ProcExit
    \/ ExecCommand
    \/ InstallApk
    \/ LaunchApp

UseSpec == Init /\ [][UseNext]_vars

\* ---------------------------------------------------------- main.rs run_app
\* Container::new(images, mounts).with_pid_file(pid_file), then start()
RunInit == InitWith({TRUE}, "start")

\* manifest.main_activity is None: nothing is launched
NoMainActivity ==
    /\ run_app = "launch_app"
    /\ run_app' = "wait_for_signal"
    /\ UNCHANGED <<c, w, kids, dropped, stopped, last, wfb, bfs, call, ns, sbx, registry, sig>>

\* wait_for_signal() returns: SIGINT or SIGTERM has cleared SIGNAL_FLAG
WaitForSignal ==
    /\ run_app = "wait_for_signal"
    /\ run_app' = "stop"
    /\ last' = [op |-> "signal", res |-> "Ok", tr |-> <<>>, prev |-> <<>>]
    /\ UNCHANGED <<c, w, kids, dropped, stopped, wfb, bfs, call, ns, sbx, registry, sig>>

RunNext ==
    \/ Start
    \/ WaitForBoot
    \/ WaitForBootPoll
    \/ WaitForBootSleep
    \/ InstallApk
    \/ LaunchApp
    \/ NoMainActivity
    \/ WaitForSignal
    \/ Stop
    \/ Drop
    \/ ProcExit

RunSpec == RunInit /\ [][RunNext]_vars

\* ------------------------------------- main.rs run_app, wait_for_signal
\* run_app calls wait_for_signal()
WaitForSignalCall ==
    /\ run_app = "wait_for_signal"
    /\ sig.pc = "idle"
    /\ sig' = [sig EXCEPT !.pc = "signal(SIGINT)"]
    /\ last' = [op |-> "wait_for_signal", res |-> "Ok", tr |-> <<>>, prev |-> <<>>]
    /\ UNCHANGED <<c, w, kids, dropped, stopped, wfb, run_app, bfs, call, ns, sbx, registry>>

\* the thread in wait_for_signal takes its next step; when the loop ends,
\* run_app goes on to container.stop()
WaitForSignalStep ==
    /\ sig.pc \in {"signal(SIGINT)", "signal(SIGTERM)", "store", "load", "sleep"}
    /\ sig' = wait_for_signal_step(sig)
    /\ run_app' = IF sig'.pc = "returned" THEN "stop" ELSE run_app
    /\ UNCHANGED <<c, w, kids, dropped, stopped, last, wfb, bfs, call, ns, sbx, registry>>

\* SIGINT or SIGTERM arrives while the process is in wait_for_signal; a
\* signal with the default action ends the process, and with it the flow
SignalDelivered ==
    /\ sig.pc \in {"signal(SIGINT)", "signal(SIGTERM)", "store", "load", "sleep"}
    /\ Len(sig.delivered) < MaxSignals
    /\ \E signal \in Signals : sig' = deliver(sig, signal)
    /\ run_app' = IF sig'.pc = "killed" THEN "done" ELSE run_app
    /\ UNCHANGED <<c, w, kids, dropped, stopped, last, wfb, bfs, call, ns, sbx, registry>>

SignalNext ==
    \/ Start
    \/ WaitForBoot
    \/ WaitForBootPoll
    \/ WaitForBootSleep
    \/ InstallApk
    \/ LaunchApp
    \/ NoMainActivity
    \/ WaitForSignalCall
    \/ WaitForSignalStep
    \/ SignalDelivered
    \/ Stop
    \/ Drop
    \/ ProcExit

\* the main thread keeps running: each step of wait_for_signal is taken
SignalSpec == RunInit /\ [][SignalNext]_vars /\ WF_vars(WaitForSignalStep)

\* ------------------------------------ the FUSE helpers, called directly
Fuse2fsMount ==
    /\ \E target \in Targets, ok \in BOOLEAN :
          Commit("fuse2fs_mount", fuse2fs_mount(Thread, target, ok))
    /\ UNCHANGED <<dropped, stopped, wfb, run_app, bfs, call, ns, sbx, registry, sig>>

FusermountUnmount ==
    /\ \E target \in Targets, u \in UnmountRuns :
          Commit("fusermount_unmount", fusermount_unmount(Thread, target, u))
    /\ UNCHANGED <<dropped, stopped, wfb, run_app, bfs, call, ns, sbx, registry, sig>>

UnmountNext ==
    \/ Fuse2fsMount
    \/ FusermountUnmount

UnmountSpec == Init /\ [][UnmountNext]_vars

\* ------------------------------------------------------------- image.rs
ImageInit == InitWith({FALSE}, "off")

\* one call per behaviour: the functions of image.rs keep no state
ForPrefix ==
    /\ call.op = "none"
    /\ \E r1 \in Roots, r2 \in Roots :
          call' = [op |-> "for_prefix", arg |-> <<r1, r2>>,
                   out |-> <<for_prefix(r1), for_prefix(r2)>>]
    /\ UNCHANGED <<c, w, kids, dropped, stopped, last, wfb, run_app, bfs, ns, sbx, registry, sig>>

Validate ==
    /\ call.op = "none"
    /\ \E img \in ImageInputs :
          LET r == validate([tr |-> <<>>], img)
          IN  call' = [op |-> "validate", arg |-> img, out |-> <<r.res, r.s.tr>>]
    /\ UNCHANGED <<c, w, kids, dropped, stopped, last, wfb, run_app, bfs, ns, sbx, registry, sig>>

ImageNext ==
    \/ ForPrefix
    \/ Validate

ImageSpec == ImageInit /\ [][ImageNext]_vars

\* ---------------------------------------- container.rs prepare_apex_dirs
ApexInit == InitWith({FALSE}, "off")

PrepareApexDirs ==
    /\ call.op = "none"
    /\ \E up \in UpperBefore, payload \in Payloads :
          \E fail \in ApexFails(payload) :
             LET r == apex_dirs(up, payload, fail)
             IN  call' = [op |-> "prepare_apex_dirs",
                          arg |-> [up |-> up, payload |-> payload, fail |-> fail],
                          out |-> r]
    /\ UNCHANGED <<c, w, kids, dropped, stopped, last, wfb, run_app, bfs, ns, sbx, registry, sig>>

ApexSpec == ApexInit /\ [][PrepareApexDirs]_vars

\* ------------------------------------------------------- sandbox/lib.rs
NsInit == InitWith({FALSE}, "off")

EnterNamespaces ==
    /\ ns.pc = "none"
    /\ \E uid \in Ids, gid \in Ids, fail \in 0 .. 5 :
          ns' = [enter_namespaces(ns, [uid |-> uid, gid |-> gid, fail |-> fail])
                   EXCEPT !.pc = "enter_namespaces"]
    /\ UNCHANGED <<c, w, kids, dropped, stopped, last, wfb, run_app, bfs, call, sbx, registry, sig>>

\* the mapping written by a caller that has entered the user namespace itself
SetupUidGidMapping ==
    /\ ns.pc = "none"
    /\ \E uid \in Ids, gid \in Ids, fail \in 0 .. 3 :
          ns' = [setup_uid_gid_mapping([ns EXCEPT !.uid = uid, !.gid = gid,
                                                  !.userns = TRUE], uid, gid, fail)
                   EXCEPT !.pc = "setup_uid_gid_mapping"]
    /\ UNCHANGED <<c, w, kids, dropped, stopped, last, wfb, run_app, bfs, call, sbx, registry, sig>>

NsNext ==
    \/ EnterNamespaces
    \/ SetupUidGidMapping

NsSpec == NsInit /\ [][NsNext]_vars

\* ---------------------------------------------------------- prefix.rs
SandboxInit == InitWith({FALSE}, "off")

Rest == UNCHANGED <<c, w, kids, dropped, stopped, last, wfb, run_app, bfs, call, registry, sig>>

\* what the caller passes: redirect, and whether the command or one of the
\* arguments holds a NUL byte
SandboxArgs == [redirect : BOOLEAN, command_nul : BOOLEAN, args_nul : BOOLEAN]

RunInSandbox ==
    /\ sbx.parent = "idle"
    /\ \E arg \in SandboxArgs, forked \in BOOLEAN :
         sbx' = run_in_sandbox(sbx, arg, forked)
    /\ UNCHANGED ns
    /\ Rest

ParentWaitpid ==
    /\ sbx.parent = "waitpid"
    /\ \E eintr \in BOOLEAN :
         /\ ~eintr => sbx.child = "exited"
         /\ sbx' = wait_child(sbx, eintr)
    /\ UNCHANGED ns
    /\ Rest

\* prefix.rs:137, in the child
ChildEnterNamespaces ==
    /\ sbx.child = "enter_namespaces"
    /\ \E uid \in {Id(0, 0), Id(0, 1000)}, fail \in 0 .. 5 :
         /\ ns' = [enter_namespaces(ns, [uid |-> uid, gid |-> uid, fail |-> fail])
                     EXCEPT !.pc = "enter_namespaces"]
         /\ sbx' = child_step(sbx, "enter_namespaces", ns'.res = "Ok", "setup_sandbox_mounts")
    /\ Rest

\* prefix.rs:140
ChildSetupSandboxMounts ==
    /\ sbx.child = "setup_sandbox_mounts"
    /\ \E ok \in BOOLEAN :
         sbx' = child_step(sbx, "setup_sandbox_mounts", ok,
                           IF sbx.arg.redirect THEN "redirect_stdio" ELSE "chroot")
    /\ UNCHANGED ns
    /\ Rest

\* prefix.rs:142-145
ChildRedirectStdio ==
    /\ sbx.child = "redirect_stdio"
    /\ \E ok \in BOOLEAN : sbx' = child_step(sbx, "redirect_stdio", ok, "chroot")
    /\ UNCHANGED ns
    /\ Rest

\* prefix.rs:148
ChildChroot ==
    /\ sbx.child = "chroot"
    /\ \E ok \in BOOLEAN : sbx' = child_step(sbx, "chroot", ok, "exec")
    /\ UNCHANGED ns
    /\ Rest

\* prefix.rs:151-154
ChildExec ==
    /\ sbx.child = "exec"
    /\ \E ok \in BOOLEAN : sbx' = exec(sbx, ok)
    /\ UNCHANGED ns
    /\ Rest

\* the command the child has become ends, and so does a child whose panic
\* has unwound the caller's frames
ChildEnds ==
    /\ sbx.child \in {"command", "unwinding"}
    /\ \E st \in {"Exited(0)", "Exited(1)", "Signaled"} :
         sbx' = [sbx EXCEPT !.child = "exited", !.status = st]
    /\ UNCHANGED ns
    /\ Rest

SandboxNext ==
    \/ RunInSandbox
    \/ ParentWaitpid
    \/ ChildEnterNamespaces
    \/ ChildSetupSandboxMounts
    \/ ChildRedirectStdio
    \/ ChildChroot
    \/ ChildExec
    \/ ChildEnds

SandboxSpec == SandboxInit /\ [][SandboxNext]_vars

\* ---------------------------------------------------------- runtime/lib.rs
RegistryInit == InitWith({FALSE}, "off")

ServiceNames == {"activity", "package", "window"}

Services == [name : ServiceNames, id : 1 .. MaxServices]

Done(r, service) == [r EXCEPT !.done = IF r.res = "Ok" THEN @ \cup {service} ELSE @]

Register ==
    /\ \E service \in Services :
         registry' = Done([register(registry, service)
                             EXCEPT !.op = "register", !.arg = service.name], service)
    /\ UNCHANGED <<c, w, kids, dropped, stopped, last, wfb, run_app, bfs, call, ns, sbx, sig>>

InitMinimalServices ==
    /\ registry.op = "new"
    /\ \E a \in 1 .. MaxServices, p \in 1 .. MaxServices :
         LET r == init_minimal_services(registry, a, p)
         IN  registry' = [r EXCEPT !.op = "init_minimal_services", !.arg = "",
                                   !.done = r.services]
    /\ UNCHANGED <<c, w, kids, dropped, stopped, last, wfb, run_app, bfs, call, ns, sbx, sig>>

RegistryNext ==
    \/ Register
    \/ InitMinimalServices

RegistrySpec == RegistryInit /\ [][RegistryNext]_vars

\* ---------------------------------------------------------- binderfs.rs
BinderInit == InitWith({FALSE}, "off")

Frozen == UNCHANGED <<c, w, kids, dropped, stopped, last, wfb, run_app, call, ns, sbx, registry, sig>>

BinderNew ==
    /\ bfs.pc \in {"none", "gone"}
    /\ bfs.made < MaxInstances
    /\ \E o \in NewOutcomes : bfs' = new(Fresh("new"), o)
    /\ Frozen

BinderSetup ==
    /\ bfs.pc \in {"none", "gone"}
    /\ bfs.made < MaxInstances
    /\ \E o \in SetupOutcomes : bfs' = setup_binderfs_in_sandbox(Fresh("setup"), o)
    /\ Frozen

\* an explicit unmount(); a failed umount(2) can be tried again
BinderUnmount ==
    /\ bfs.pc = "live"
    /\ bfs.umounts < MaxUmounts
    /\ \E ok \in BOOLEAN : bfs' = unmount(Call("unmount"), ok)
    /\ Frozen

BinderDrop ==
    /\ bfs.pc = "live"
    /\ \E ok \in BOOLEAN : bfs' = drop_instance(Call("drop"), ok)
    /\ Frozen

BinderNext ==
    \/ BinderNew
    \/ BinderSetup
    \/ BinderUnmount
    \/ BinderDrop

BinderSpec == BinderInit /\ [][BinderNext]_vars

\* =================================================================== claims
UnmountTools == {"fusermount3 -u", "fusermount -u", "fusermount -uz"}

\* an unmount of the target was attempted / succeeded in this trace
Tried(tr, target) == \E i \in 1 .. Len(tr) : tr[i].k \in UnmountTools /\ tr[i].t = target

Undone(tr, target) ==
    \E i \in 1 .. Len(tr) : tr[i].k \in UnmountTools /\ tr[i].t = target /\ tr[i].ok

HasK(tr, k) == \E i \in 1 .. Len(tr) : tr[i].k = k

Flag(cont, target) ==
    IF target = "system" THEN cont.system_mounted ELSE cont.vendor_mounted

LiveTracked == c.init_pid # None /\ w.proc[c.init_pid] = "alive"

LateErrors == {"ErrApex", "ErrLinkerConfig", "ErrNoInit", "ErrSpawn", "ErrInitDied"}

FailedLate == last.op = "start" /\ last.res \in LateErrors

MissingImage(tr) == \E i \in 1 .. Len(tr) : tr[i].k = "exists" /\ ~tr[i].ok

\* what one stop() does to the mount table and the flags: one attempt per set
\* flag, a successful attempt removes one mount and clears the flag
BestEffortUnmount ==
    \A t \in Targets :
        /\ Tried(last'.tr, t) <=> Flag(c, t)
        /\ w'.mnt[t] = w.mnt[t] - (IF Undone(last'.tr, t) THEN 1 ELSE 0)
        /\ Flag(c', t) <=> (Flag(c, t) /\ ~Undone(last'.tr, t))

\* C1: when the vendor-image mount fails during start(), the system-image
\* mount made by that start() has been unmounted when the error is returned,
\* whatever the unmount tools answer.
C1_VendorFailureLeavesNoMount ==
    (last.op = "start" /\ last.res = "ErrMountVendor")
        => (HasOk(last.tr, "fuse2fs", "system") /\ Undone(last.tr, "system"))

\* C2 (as claimed): discarding a Container that has a live tracked process,
\* with no stop() before, leaves both FUSE mount points unmounted.
C2_DiscardUnmountsBoth ==
    [][(~dropped /\ ~stopped /\ LiveTracked /\ last'.op = "drop")
          => \A t \in Targets : w'.mnt[t] = 0]_vars

\* C2 (amended): discarding a Container that has a live tracked process, with
\* no stop() before, runs stop(): the tracked process is signalled, one unmount
\* is attempted for each FUSE mount point whose mounted flag is set, each
\* successful attempt removes one FUSE mount and clears the flag, and a failed
\* attempt leaves the mount and the flag in place.
C2_DiscardRunsBestEffortTeardown ==
    [][(~dropped /\ ~stopped /\ LiveTracked /\ last'.op = "drop")
          => /\ \E i \in 1 .. Len(last'.tr) :
                    last'.tr[i].k = "SIGTERM" /\ last'.tr[i].p = c.init_pid
             /\ c'.init_pid = None
             /\ BestEffortUnmount]_vars

C2_Witness ==
    /\ dropped /\ ~stopped /\ last.op = "drop"
    /\ \E i \in 1 .. Len(last.tr) :
           last.tr[i].k = "SIGTERM" /\ last.tr[i].t = "alive" /\ last.tr[i].ok
    /\ Undone(last.tr, "vendor") /\ Undone(last.tr, "system")
    /\ \A t \in Targets : w.mnt[t] = 0

\* C3 (as claimed): after start() failed once the images were mounted, the end
\* of the Container's lifetime leaves no process spawned by the instance
\* alive and no FUSE image mounted.
C3_DiscardAfterFailedStartLeavesNothing ==
    [][(FailedLate /\ last'.op = "drop")
          => /\ \A p \in kids' : w'.proc[p] # "alive"
             /\ \A t \in Targets : w'.mnt[t] = 0]_vars

\* C3 (amended): on every path where start() returns an error after the images
\* were FUSE-mounted, both mounted flags are set, so the end of the
\* Container's lifetime runs exactly what stop() does: the tracked pid, if
\* any, is signalled, the vendor and the system mount point each get one
\* unmount attempt, a successful attempt removes one mount and clears the
\* flag, a failed one leaves the image mounted.
C3_DiscardAfterFailedStartRunsStop ==
    /\ [](FailedLate => (c.system_mounted /\ c.vendor_mounted))
    /\ [][(FailedLate /\ last'.op = "drop")
            => /\ \E o \in StopInputs(c, w) :
                     LET r == stop(Thread, o)
                     IN  /\ r.res = last'.res
                         /\ r.s.c = c'
                         /\ r.s.w = w'
                         /\ r.s.tr = last'.tr
               /\ Tried(last'.tr, "vendor") /\ Tried(last'.tr, "system")
               /\ HasK(last'.tr, "SIGTERM") <=> c.init_pid # None
               /\ BestEffortUnmount]_vars

C3_Witness ==
    /\ dropped /\ last.op = "drop"
    /\ last.prev = <<"start", "ErrNoInit">>
    /\ Undone(last.tr, "vendor") /\ Undone(last.tr, "system")
    /\ ~c.system_mounted /\ ~c.vendor_mounted

\* C4: start() with a missing image fails with the image-not-found error
\* after the existence probes alone: nothing but those probes has run (no
\* directory creation, no mount, no spawn) and the Container, the
\* directories, the mount table and the process table are as before.
C4_MissingImagesFailBeforeAnyMutation ==
    /\ []((last.op = "start" /\ MissingImage(last.tr))
            => /\ last.res \in {"SystemImageNotFound", "VendorImageNotFound"}
               /\ \A i \in 1 .. Len(last.tr) : last.tr[i].k = "exists")
    /\ [][(last'.op = "start" /\ MissingImage(last'.tr))
            => (c' = c /\ w' = w /\ kids' = kids)]_vars

C4_Witness ==
    /\ last.op = "start" /\ last.res = "SystemImageNotFound"
    /\ w.dirs = {} /\ c.init_pid = None
    /\ ~c.system_mounted /\ ~c.vendor_mounted /\ ~c.overlay_mounted

NoInit == last.op = "start" /\ last.res = "ErrNoInit"

\* C5 (as claimed): a start() that fails because no init binary exists has
\* made no FUSE mount.
C5_NoInitFailsBeforeMounting ==
    NoInit => (~HasOk(last.tr, "fuse2fs", "system") /\ ~HasOk(last.tr, "fuse2fs", "vendor"))

\* C5 (amended): a missing init binary is detected after both images were
\* FUSE-mounted and before any process is spawned: when start() fails for
\* this reason, the call has mounted both images and set both mounted flags,
\* and it has spawned no process and left init_pid as it was.
C5_NoInitFailsAfterMountingBeforeSpawn ==
    /\ [](NoInit => /\ HasOk(last.tr, "fuse2fs", "system")
                    /\ HasOk(last.tr, "fuse2fs", "vendor")
                    /\ c.system_mounted /\ c.vendor_mounted
                    /\ ~HasK(last.tr, "spawn"))
    /\ [][(last'.op = "start" /\ last'.res = "ErrNoInit")
            => (c'.init_pid = c.init_pid /\ w'.proc = w.proc /\ kids' = kids)]_vars

C5_Witness ==
    /\ NoInit
    /\ w.mnt["system"] = 1 /\ w.mnt["vendor"] = 1
    /\ c.init_pid = None

\* C6 (as claimed): every stop() attempts to unmount both the vendor and the
\* system mount point, and with a pid-file configured the pid-file is gone.
C6_StopAlwaysUnmountsBoth ==
    last.op = "stop"
        => /\ Tried(last.tr, "vendor") /\ Tried(last.tr, "system")
           /\ c.pid_file => w.pidFile = None

\* C6 (amended): every stop(), whether or not the process could be signalled,
\* attempts to unmount exactly the FUSE mount points whose mounted flag is
\* set, the vendor one before the system one, and attempts to remove the
\* pid-file exactly when one is configured.
C6_StopUnmountsWhatIsFlagged ==
    [][last'.op = "stop"
          => /\ \A t \in Targets : Tried(last'.tr, t) <=> Flag(c, t)
             /\ \A i, j \in 1 .. Len(last'.tr) :
                    (/\ last'.tr[i].k \in UnmountTools /\ last'.tr[i].t = "system"
                     /\ last'.tr[j].k \in UnmountTools /\ last'.tr[j].t = "vendor")
                        => j < i
             /\ HasK(last'.tr, "remove_pid_file") <=> c.pid_file]_vars

C6_Witness ==
    /\ last.op = "stop"
    /\ \E i \in 1 .. Len(last.tr) : last.tr[i].k = "SIGTERM" /\ ~last.tr[i].ok
    /\ Tried(last.tr, "vendor") /\ Tried(last.tr, "system")
    /\ HasK(last.tr, "remove_pid_file")

C8_StopKillsAndReaps ==
    (last.op = "stop" /\ HasK(last.tr, "SIGTERM"))
        => /\ 0 < Pos(last.tr, "SIGTERM")
           /\ Pos(last.tr, "SIGTERM") < Pos(last.tr, "SIGKILL")
           /\ Pos(last.tr, "SIGKILL") < Pos(last.tr, "waitpid")
           /\ w.proc[last.tr[Pos(last.tr, "SIGTERM")].p] = "reaped"

\* C9: between operations init_pid is present exactly when a launched
\* process has not yet been reaped.
C9_InitPidIffLiveProcess ==
    (~dropped /\ wfb.pc = "idle")
        => /\ c.init_pid # None => w.proc[c.init_pid] \in {"alive", "zombie"}
           /\ \A p \in kids : w.proc[p] \in {"alive", "zombie"} => c.init_pid = p

\* C10: a poll of wait_for_boot that finds the tracked process dead before
\* the deadline ends the call with the 'init died' error.
C10_WaitForBootFailsOnDeadProcess ==
    [][(wfb.pc = "loop" /\ wfb.elapsed <= wfb.timeout /\ ~LiveTracked /\ wfb' # wfb)
          => wfb'.res = "ErrInitDied"]_vars

\* the text is "1" once the whitespace around it is taken away
Stripped1(out) ==
    \E i \in 1 .. Len(out) :
        /\ out[i] = "1"
        /\ \A j \in 1 .. Len(out) : j # i => IsSpace(out[j])

\* the pass of the loop made in this step read the property
Polled == wfb'.polls = wfb.polls + 1

\* C11: wait_for_boot returns Ok exactly from a poll whose exec_command
\* succeeded with a stdout that is "1" once trimmed; any other poll, an
\* exec_command error included, goes on to the sleep and the next pass; the
\* timeout error is returned exactly by a pass that starts after the
\* deadline, and a pass before the deadline with the process running polls.
C11_BootWaitOkOnlyOnSuccessValue ==
    [][(wfb.pc = "loop" /\ wfb' # wfb)
          => /\ wfb'.res = "Ok"
                    <=> (Polled /\ wfb'.exec = "Ok" /\ Stripped1(wfb'.out))
             /\ (Polled /\ wfb'.res # "Ok")
                    => (wfb'.pc = "sleep" /\ wfb'.res = "Pending")
             /\ wfb'.res = "ErrTimeout" <=> wfb.elapsed > wfb.timeout
             /\ (wfb.elapsed <= wfb.timeout /\ is_running(c, w)) => Polled]_vars

C11_Witness ==
    /\ wfb.pc = "idle" /\ wfb.res = "Ok"
    /\ wfb.polls >= 2
    /\ wfb.out = <<"1", "\n">>

\* C12: start() returns Ok only if the spawned child is still alive at the
\* liveness probe; a child that has exited by then makes start() fail with
\* the 'init died' error.
C12_StartOkOnlyIfChildAlive ==
    /\ (last.op = "start" /\ last.res = "Ok") => w.proc[c.init_pid] = "alive"
    /\ (last.op = "start" /\ HasK(last.tr, "is_running")
            /\ w.proc[c.init_pid] # "alive") => last.res = "ErrInitDied"

\* C13: is_running() is false when no process id is tracked, as on a new
\* Container and after every stop(); with a tracked process id it is the
\* answer of kill(pid, 0), which is true for a process that is alive and
\* for one that has exited and has not been reaped: once true it stays
\* true while the same pid is tracked and the process has not been reaped.
C13_IsRunningIsZeroSignalProbe ==
    /\ [](c.init_pid = None => ~is_running(c, w))
    /\ [](last.op \in {"new", "stop"} => ~is_running(c, w))
    /\ [](c.init_pid # None
            => /\ is_running(c, w) <=> kill_ok(w.proc, c.init_pid)
               /\ w.proc[c.init_pid] \in {"alive", "zombie"} => is_running(c, w))
    /\ [][(/\ is_running(c, w)
           /\ c'.init_pid = c.init_pid
           /\ w'.proc[c.init_pid] # "reaped") => is_running(c', w')]_vars

C13_Witness ==
    /\ last.op = "exit"
    /\ c.init_pid # None
    /\ w.proc[c.init_pid] = "zombie"
    /\ is_running(c, w)

\* the Output that exec_command returned in this trace, if it returned one
Returned(tr) == tr[Pos(tr, "output")]

\* C14 (as claimed): exec_command with a tracked process id returns the
\* captured output as a success value.
C14_ExecCommandReturnsOutputWhenTracked ==
    [][(last'.op = "exec_command" /\ c.init_pid # None)
          => (last'.res = "Ok" /\ HasK(last'.tr, "output"))]_vars

\* C14 (amended): exec_command with no tracked process id returns the 'not
\* running' error without running anything; with a tracked process id, live
\* or not, it runs nsenter on that pid: when nsenter cannot be executed that
\* is an error, otherwise the captured output and exit status are returned
\* as Ok whatever the status is; the Container and the world are left as
\* they were.
C14_ExecCommandNeedsTrackedPid ==
    [][last'.op = "exec_command"
          => /\ c.init_pid = None
                    => (last'.res = "ErrNotRunning" /\ last'.tr = <<>>)
             /\ c.init_pid # None
                    => /\ Len(last'.tr) >= 1
                       /\ last'.tr[1].k = "nsenter" /\ last'.tr[1].p = c.init_pid
                       /\ last'.res = (IF last'.tr[1].ok THEN "Ok" ELSE "ErrExec")
                       /\ last'.tr[1].ok <=> HasK(last'.tr, "output")
             /\ c' = c /\ w' = w /\ kids' = kids]_vars

C14_Witness ==
    /\ last.op = "exec_command" /\ last.res = "Ok"
    /\ HasK(last.tr, "output")
    /\ Returned(last.tr).p # 0
    /\ Returned(last.tr).t = "err"

\* C15: install_apk with no tracked process id fails before it creates or
\* copies anything; with one it creates the directory and copies the archive
\* before the installer is run, the installer is run only after a successful
\* copy, a non-zero installer exit is the 'pm install failed' error with the
\* captured output in its message, and a zero exit is Ok.
C15_InstallCopiesThenRunsInstaller ==
    [][last'.op = "install_apk"
          => /\ c.init_pid = None
                    => (last'.res = "ErrNotRunning" /\ last'.tr = <<>> /\ w' = w)
             /\ c.init_pid # None => last'.tr[1].k = "create_dir_all"
             /\ HasK(last'.tr, "nsenter")
                    <=> (HasK(last'.tr, "copy") /\ last'.tr[Pos(last'.tr, "copy")].ok)
             /\ HasK(last'.tr, "nsenter")
                    => /\ Pos(last'.tr, "copy") < Pos(last'.tr, "nsenter")
                       /\ ApkFile \in w'.dirs
             /\ HasK(last'.tr, "output")
                    => IF Returned(last'.tr).p = 0
                       THEN last'.res = "Ok" /\ ~HasK(last'.tr, "bail")
                       ELSE /\ last'.res = "ErrPmInstall"
                            /\ last'.tr[Len(last'.tr)].k = "bail"
                            /\ last'.tr[Len(last'.tr)].t = Returned(last'.tr).t
             /\ last'.res = "Ok" => HasK(last'.tr, "output")
             /\ c' = c /\ kids' = kids /\ w'.mnt = w.mnt /\ w'.proc = w.proc]_vars

C15_Witness ==
    /\ last.op = "install_apk" /\ last.res = "ErrPmInstall"
    /\ ApkFile \in w.dirs
    /\ last.tr[Len(last.tr)].k = "bail"
    /\ last.tr[Len(last.tr)].t = "Failure"

\* the part of run_app between start() and wait_for_signal()
BeforeSignalWait == {"wait_for_boot", "install_apk", "launch_app"}

\* C16: in the run flow, while wait_for_boot, install_apk and launch_app are
\* called, init_pid, the mounted flags and the mount table stay as they are
\* and the flow goes on to the next call or to the wait for the stop signal,
\* whatever these calls return; stop() is first called after the wait for
\* the signal has returned, and the Container is discarded only after a
\* failed start() or after that stop().
C16_FailuresDoNotTearDown ==
    /\ [][(run_app \in BeforeSignalWait)
            => /\ c' = c
               /\ w'.mnt = w.mnt
               /\ run_app' \in BeforeSignalWait \cup {"wait_for_signal"}
               /\ (~stopped' /\ ~dropped')]_vars
    /\ [][(stopped' /\ ~stopped) => run_app = "stop"]_vars
    /\ [][(run_app' = "stop" /\ run_app # "stop")
            => (run_app = "wait_for_signal" /\ last'.op = "signal")]_vars
    /\ [][(dropped' /\ ~dropped) => run_app = "drop"]_vars
    /\ [][(run_app' = "drop" /\ run_app # "drop")
            => \/ run_app = "start" /\ last'.op = "start" /\ last'.res # "Ok"
               \/ run_app = "stop" /\ last'.op = "stop"]_vars

C16_Witness ==
    /\ run_app = "wait_for_signal"
    /\ last.op = "launch_app" /\ last.res = "ErrAmStart"
    /\ ApkDir \in w.dirs /\ ApkFile \notin w.dirs
    /\ c.init_pid # None /\ w.proc[c.init_pid] = "alive"
    /\ c.system_mounted /\ c.vendor_mounted
    /\ ~stopped /\ ~dropped

\* ---------------------------------------------------------------- C17
Ioctls == SelectSeq(bfs.tr, LAMBDA e : e.k = "ioctl")

\* C17: provisioning issues the BINDER_CTL_ADD ioctls for binder, hwbinder,
\* vndbinder in that order; a provisioning that succeeds has issued exactly
\* the three; an ioctl that returns a negative value is the last one issued
\* and the provisioning returns an error
C17_IoctlsInFixedOrder ==
    /\ Len(Ioctls) <= Len(Devices)
    /\ \A i \in 1 .. Len(Ioctls) :
          /\ Ioctls[i].t = Devices[i]
          /\ ~Ioctls[i].ok => (i = Len(Ioctls) /\ bfs.res = "ErrCreateDevice")
    /\ (bfs.op \in {"new", "setup"} /\ bfs.res = "Ok")
          => (Len(Ioctls) = 3 /\ bfs.devices = Devices)
    /\ bfs.devices = [i \in 1 .. Len(bfs.devices) |-> Devices[i]]

\* the ioctl for hwbinder failed: binder was made, vndbinder never tried
C17_Witness ==
    /\ Len(Ioctls) = 2
    /\ ~Ioctls[2].ok
    /\ bfs.devices = <<"binder">>
    /\ bfs.res = "ErrCreateDevice"

\* ---------------------------------------------------------------- C18
\* C18 as stated: when a live instance is discarded, umount(2) has been
\* issued exactly once over its lifetime, and unmount() on an instance that
\* is not mounted is a no-op returning success
C18_UnmountIssuedExactlyOnce ==
    /\ [][(bfs.pc = "live" /\ bfs'.pc = "gone") => bfs'.umounts = 1]_vars
    /\ [][(bfs.pc = "live" /\ bfs'.op = "unmount" /\ ~bfs.mounted)
            => (bfs'.res = "Ok" /\ bfs'.tr = <<>> /\ bfs'.umounts = bfs.umounts)]_vars

\* C18, amended: unmount() and discard issue umount(2) exactly when the
\* instance is flagged mounted; the flag is cleared only by a umount(2) that
\* succeeds, so the call succeeds at most once in a lifetime but is issued
\* again after each failure, and a discard whose umount(2) fails leaves the
\* mount in place; unmount() on an instance that is not mounted is a no-op
\* returning success
C18_UnmountSucceedsAtMostOnce ==
    /\ [][(bfs.pc = "live" /\ bfs'.op \in {"unmount", "drop"} /\ bfs.mounted)
            => /\ bfs'.umounts = bfs.umounts + 1
               /\ Len(bfs'.tr) = 1 /\ bfs'.tr[1].k = "umount"
               /\ bfs'.mounted = ~bfs'.tr[1].ok
               /\ bfs'.kmnt = IF bfs'.tr[1].ok THEN bfs.kmnt - 1 ELSE bfs.kmnt
               /\ (bfs'.op = "unmount")
                    => (bfs'.res = IF bfs'.tr[1].ok THEN "Ok" ELSE "ErrUnmount")]_vars
    /\ [][(bfs.pc = "live" /\ bfs'.op \in {"unmount", "drop"} /\ ~bfs.mounted)
            => /\ bfs'.umounts = bfs.umounts
               /\ bfs'.tr = <<>>
               /\ bfs'.kmnt = bfs.kmnt
               /\ ~bfs'.mounted
               /\ (bfs'.op = "unmount") => bfs'.res = "Ok"]_vars
    /\ [][(bfs.pc = "live" /\ bfs.mounted) => bfs.kmnt >= 1]_vars

\* unmount() failed once, then the discard issued umount(2) a second time
C18_Witness ==
    /\ bfs.pc = "gone"
    /\ bfs.op = "drop"
    /\ bfs.umounts = 2
    /\ ~bfs.mounted
    /\ bfs.devices = Devices

\* ---------------------------------------------------------------- C19
\* C19: unmount of a target with nothing mounted on it succeeds and changes
\* nothing
C19_UnmountIdempotent ==
    [][(last'.op = "fusermount_unmount" /\ w.mnt[last'.tr[1].t] = 0)
         => (last'.res = "Ok" /\ w' = w /\ c' = c)]_vars

\* ---------------------------------------------------------------- C20
\* the three attempts in the order of fusermount_unmount
UnmountOrder == <<"fusermount3 -u", "fusermount -u", "fusermount -uz">>

\* C20: unmount runs fusermount3 -u, fusermount -u, fusermount -uz in that
\* order and stops at the first that succeeds; it returns Ok when one of them
\* succeeded and an error only when all three have been run and failed
C20_UnmountTriesAllThree ==
    last.op = "fusermount_unmount"
      => /\ Len(last.tr) \in 1 .. 3
         /\ \A i \in 1 .. Len(last.tr) :
               /\ last.tr[i].k = UnmountOrder[i]
               /\ last.tr[i].ok => i = Len(last.tr)
         /\ (last.res = "Ok") = last.tr[Len(last.tr)].ok
         /\ (last.res # "Ok") => Len(last.tr) = 3

\* ---------------------------------------------------------------- C21
MountFields == {"system_mount", "vendor_mount", "rootfs", "overlay_upper", "overlay_work"}

\* C21: the five paths of one root are pairwise distinct; two roots that are
\* different paths share none of their derived paths; two spellings of one
\* root give the same five paths
C21_DerivedPathsNeverShared ==
    call.op = "for_prefix"
      => LET r1 == call.arg[1]
             r2 == call.arg[2]
             m1 == call.out[1]
             m2 == call.out[2]
         IN  /\ \A f \in MountFields, g \in MountFields :
                   f # g => components(m1[f]) # components(m1[g])
             /\ components(r1) # components(r2)
                  => \A f \in MountFields, g \in MountFields :
                        components(m1[f]) # components(m2[g])
             /\ components(r1) = components(r2)
                  => \A f \in MountFields : components(m1[f]) = components(m2[f])

\* the first root is the rootfs directory of the second
C21_Witness ==
    /\ call.op = "for_prefix"
    /\ call.arg[1] # call.arg[2]
    /\ components(call.arg[1]) = components(call.out[2].rootfs)

C23_StoppedIsTerminal ==
    [][(stopped /\ last'.op = "start")
         => /\ last'.res # "Ok"
            /\ ~HasK(last'.tr, "fuse2fs")
            /\ ~HasK(last'.tr, "spawn")
            /\ c'.init_pid = None]_vars

\* ---------------------------------------------------------------- C24
DigitValue(ch) == CHOOSE v \in 0 .. 9 : Digits[v + 1] = ch

\* the u32 a decimal numeral denotes
RECURSIVE Denotes(_)
Denotes(numeral) ==
    IF numeral = <<>> THEN Id(0, 0)
    ELSE LET pre == Denotes(SubSeq(numeral, 1, Len(numeral) - 1))
             low == pre.lo * 10 + DigitValue(numeral[Len(numeral)])
         IN  Id(pre.hi * 10 + low \div 65536, low % 65536)

IsDecimalOf(field, id) ==
    /\ Len(field) \in 1 .. 10
    /\ \A i \in 1 .. Len(field) : \E v \in 0 .. 9 : Digits[v + 1] = field[i]
    /\ (Len(field) > 1) => field[1] # "0"
    /\ Denotes(field) = id

IsMapLineFor(line, id) ==
    LET fields == split_whitespace(line)
    IN  /\ Len(fields) = 3
        /\ fields[1] = <<"0">>
        /\ IsDecimalOf(fields[2], id)
        /\ fields[3] = <<"1">>

\* C24: a uid or gid mapping line that has been written has exactly three
\* whitespace-separated fields: "0", the decimal numeral of the outer id,
\* and "1"
C24_MappingLineHasThreeFields ==
    /\ ns.uid_map # <<>> => IsMapLineFor(ns.uid_map, ns.uid)
    /\ ns.gid_map # <<>> => IsMapLineFor(ns.gid_map, ns.gid)

\* uid 65534 (nobody) and gid 0 have both been mapped
C24_Witness ==
    /\ ns.uid = Id(0, 65534)
    /\ ns.gid = Id(0, 0)
    /\ ns.uid_map = <<"0", " ", "6", "5", "5", "3", "4", " ", "1">>
    /\ ns.gid_map = <<"0", " ", "0", " ", "1">>

\* ---------------------------------------------------------------- C29
NsOrder == <<<<"getuid", "">>, <<"getgid", "">>, <<"unshare", "CLONE_NEWUSER">>,
             <<"write", "uid_map">>, <<"write", "setgroups">>, <<"write", "gid_map">>,
             <<"unshare", "CLONE_NEWNS">>>>

NsStep(i) == <<ns.tr[i].k, ns.tr[i].t>>

NsDone(k, t) == \E i \in 1 .. Len(ns.tr) : NsStep(i) = <<k, t>> /\ ns.tr[i].ok

\* C29: enter_namespaces takes its steps in the order getuid/getgid,
\* unshare(CLONE_NEWUSER), uid_map, setgroups, gid_map, unshare(CLONE_NEWNS);
\* gid_map is never written before setgroups has been denied, and the mount
\* namespace is never entered before both mappings are written
C29_NamespaceEntryOrder ==
    /\ ns.pc = "enter_namespaces"
         => /\ Len(ns.tr) <= Len(NsOrder)
            /\ \A i \in 1 .. Len(ns.tr) : NsStep(i) = NsOrder[i]
            /\ ns.res = "Ok" => Len(ns.tr) = Len(NsOrder)
    /\ \A i \in 1 .. Len(ns.tr) :
          /\ NsStep(i) = <<"write", "gid_map">>
               => \E j \in 1 .. i - 1 : NsStep(j) = <<"write", "setgroups">> /\ ns.tr[j].ok
          /\ NsStep(i) = <<"unshare", "CLONE_NEWNS">>
               => \A t \in {"uid_map", "gid_map"} :
                     \E j \in 1 .. i - 1 : NsStep(j) = <<"write", t>> /\ ns.tr[j].ok
    /\ ns.gid_map # <<>> => ns.setgroups = "deny"
    /\ ns.mntns => (ns.userns /\ ns.uid_map # <<>> /\ ns.gid_map # <<>>)

\* the whole sequence has run and both namespaces are entered
C29_Witness ==
    /\ ns.pc = "enter_namespaces"
    /\ ns.res = "Ok"
    /\ ns.mntns
    /\ Len(ns.tr) = 7

\* ---------------------------------------------------------------- C30
\* C30: when a step of namespace entry fails, the error is returned at
\* once: the failed step is the last step taken, no step is taken twice,
\* and the mount namespace is not entered
C30_NamespaceEntryFailsAtOnce ==
    /\ \A i \in 1 .. Len(ns.tr) :
          /\ ~ns.tr[i].ok => (i = Len(ns.tr) /\ ns.res # "Ok")
          /\ \A j \in 1 .. Len(ns.tr) : NsStep(i) = NsStep(j) => i = j
    /\ ns.res # "Ok"
         => /\ Len(ns.tr) > 0
            /\ ~ns.tr[Len(ns.tr)].ok
            /\ ~ns.mntns
            /\ ~NsDone("unshare", "CLONE_NEWNS")

\* the write of gid_map failed inside enter_namespaces: the user namespace
\* is entered, the mount namespace is not
C30_Witness ==
    /\ ns.pc = "enter_namespaces"
    /\ ns.res = "ErrWriteGidMap"
    /\ ns.userns
    /\ ~ns.mntns
    /\ Len(ns.tr) = 6

\* ---------------------------------------------------------------- C25
SubdirNames(payload) ==
    {payload.entries[i].name :
       i \in {j \in 1 .. Len(payload.entries) : payload.entries[j].type = "dir"}}

\* C25: a prepare_apex_dirs that succeeds on an existing system/apex leaves
\* in <upper>/apex one directory per subdirectory of system/apex, under the
\* same name, and has made nothing else; whatever the result, it makes no
\* directory for an entry that is not a directory; when system/apex does
\* not exist it makes nothing and succeeds
C25_ApexDirsMirrorSubdirectories ==
    call.op = "prepare_apex_dirs"
      => LET a == call.arg
             made == call.out.up.dirs \ a.up.dirs
         IN  /\ made \subseteq SubdirNames(a.payload)
             /\ (call.out.res = "Ok" /\ a.payload.kind = "dir")
                  => /\ call.out.up.exists
                     /\ call.out.up.dirs = a.up.dirs \cup SubdirNames(a.payload)
             /\ a.payload.kind = "absent"
                  => (call.out.res = "Ok" /\ call.out.up = a.up)
             /\ (a.fail = NoFail /\ a.payload.kind = "dir") => call.out.res = "Ok"

\* two module directories and one file in system/apex: exactly the two
\* directories are made
C25_Witness ==
    /\ call.op = "prepare_apex_dirs"
    /\ call.out.res = "Ok"
    /\ call.arg.up.dirs = {}
    /\ Len(call.arg.payload.entries) = 3
    /\ Cardinality(SubdirNames(call.arg.payload)) = 2
    /\ call.out.up.dirs = SubdirNames(call.arg.payload)

\* ---------------------------------------------------------------- C26
IsUnmount(e) == e.k \in UnmountTools

\* C26: within one start() the vendor mount is attempted only after a system
\* mount that succeeded; when the system mount fails there is no vendor
\* mount attempt and no unmount, and the mounted flags and the mount table
\* are as they were (false and empty on a Container not started before)
C26_VendorMountOnlyAfterSystemMount ==
    [][(last'.op = "start")
         => LET tr == last'.tr
            IN  /\ \A i \in 1 .. Len(tr) :
                      (tr[i].k = "fuse2fs" /\ tr[i].t = "vendor")
                        => \E j \in 1 .. i - 1 :
                              tr[j].k = "fuse2fs" /\ tr[j].t = "system" /\ tr[j].ok
                /\ (\E i \in 1 .. Len(tr) :
                       tr[i].k = "fuse2fs" /\ tr[i].t = "system" /\ ~tr[i].ok)
                     => /\ last'.res = "ErrMountSystem"
                        /\ \A i \in 1 .. Len(tr) :
                              ~(tr[i].k = "fuse2fs" /\ tr[i].t = "vendor") /\ ~IsUnmount(tr[i])
                        /\ c'.system_mounted = c.system_mounted
                        /\ c'.vendor_mounted = c.vendor_mounted
                        /\ w'.mnt = w.mnt]_vars

\* the first start() of a Container failed at the system mount
C26_Witness ==
    /\ last.op = "start"
    /\ last.res = "ErrMountSystem"
    /\ ~stopped
    /\ ~c.system_mounted /\ ~c.vendor_mounted
    /\ w.mnt = [t \in Targets |-> 0]

\* ---------------------------------------------------------------- C27
\* the place of a step of start() in its sequence; the unmount tools run
\* only as the rollback of a failed vendor mount
StartRank(e) ==
    IF e.k \in {"exists", "metadata"} THEN 1
    ELSE IF e.k = "ensure_dirs" THEN 2
    ELSE IF e.k = "prepare_prefix_dirs" THEN 3
    ELSE IF e.k = "fuse2fs" /\ e.t = "system" THEN 4
    ELSE IF e.k = "fuse2fs" /\ e.t = "vendor" THEN 5
    ELSE IF IsUnmount(e) THEN 5
    ELSE IF e.k = "prepare_apex_dirs" THEN 6
    ELSE IF e.k = "generate_linkerconfig" THEN 7
    ELSE IF e.k \in {"init_exists", "find_init"} THEN 8
    ELSE IF e.k = "spawn" THEN 9
    ELSE 10

\* the steps whose failure ends start()
Fatal(e) == ~e.ok /\ StartRank(e) <= 9 /\ ~IsUnmount(e) /\ e.k # "init_exists"

\* C27: the steps of start() occur in the order validation, directories,
\* system mount, vendor mount, APEX directories, linker configuration,
\* spawn; a step is taken only if every earlier step succeeded; a spawn
\* happens only with both images mounted and the APEX and linker steps done
C27_StartStepsInOrder ==
    [][(last'.op = "start")
         => LET tr == last'.tr
            IN  /\ \A i, j \in 1 .. Len(tr) :
                      i < j => /\ StartRank(tr[i]) <= StartRank(tr[j])
                               /\ Fatal(tr[i]) => IsUnmount(tr[j])
                /\ \A i \in 1 .. Len(tr) :
                      StartRank(tr[i]) > 1
                        => \A r \in 1 .. StartRank(tr[i]) - 1 :
                              \E j \in 1 .. i - 1 : StartRank(tr[j]) = r /\ tr[j].ok
                /\ HasK(tr, "spawn")
                     => /\ c'.system_mounted /\ c'.vendor_mounted
                        /\ \A t \in Targets : w'.mnt[t] > 0
                        /\ {"apex", "linkerconfig"} \subseteq w'.dirs]_vars

\* a start() that went through every step and spawned init
C27_Witness ==
    /\ last.op = "start"
    /\ last.res = "Ok"
    /\ HasOk(last.tr, "fuse2fs", "vendor")
    /\ \E i \in 1 .. Len(last.tr) : last.tr[i].k = "spawn" /\ last.tr[i].ok

\* ---------------------------------------------------------------- C28
StopRank(e) ==
    IF e.k \in {"SIGTERM", "sleep", "SIGKILL", "waitpid"} THEN 1
    ELSE IF IsUnmount(e) /\ e.t = "vendor" THEN 2
    ELSE IF IsUnmount(e) /\ e.t = "system" THEN 3
    ELSE IF e.k = "remove_pid_file" THEN 4
    ELSE 0

\* C28: within one stop() the init process is signalled first, then the
\* vendor image is unmounted, then the system image, and the pid-file is
\* removed last
C28_StopTearsDownInReverseOrder ==
    [][(last'.op = "stop")
         => LET tr == last'.tr
            IN  /\ \A i \in 1 .. Len(tr) : StopRank(tr[i]) > 0
                /\ \A i, j \in 1 .. Len(tr) :
                      i < j => StopRank(tr[i]) <= StopRank(tr[j])
                /\ (c.init_pid # None) => (Len(tr) > 0 /\ tr[1].k = "SIGTERM")
                /\ c.vendor_mounted => Tried(tr, "vendor")
                /\ c.system_mounted => Tried(tr, "system")
                /\ c.pid_file => tr[Len(tr)].k = "remove_pid_file"]_vars

\* a stop() that signalled init, unmounted both images and removed the
\* pid-file
C28_Witness ==
    /\ last.op = "stop"
    /\ HasK(last.tr, "SIGTERM")
    /\ Tried(last.tr, "vendor")
    /\ Tried(last.tr, "system")
    /\ HasK(last.tr, "remove_pid_file")

\* ------------------------------------------------------------------ C31
\* the steps of namespace entry and of the sandbox set-up
InSandbox == {"enter_namespaces", "setup_sandbox_mounts", "redirect_stdio", "chroot",
              "CString::new", "unwrap", "execv"}

\* C31: run_in_sandbox forks first; enter_namespaces and every later step
\* of the set-up run in the forked child only, after a fork that succeeded;
\* the calling process only forks and waits for the child; and the child
\* never goes back into the code of the caller of run_in_sandbox: it
\* becomes the command or it exits.
C31_NamespaceEntryOnlyInForkedChild ==
    /\ \A i \in 1 .. Len(sbx.tr) :
         /\ sbx.tr[i].p = 0 => sbx.tr[i].k \in {"fork", "waitpid"}
         /\ sbx.tr[i].k \in InSandbox => sbx.tr[i].p = 1 /\ sbx.tr[1].k = "fork" /\ sbx.tr[1].ok
    /\ ns.pc # "none" => sbx.child # "none"
    /\ sbx.child # "unwinding"


\* ------------------------------------------------------------------ C35
\* C35: register of a service whose name the registry holds returns
\* ServiceAlreadyRegistered and leaves the registry as it was; after every
\* register, service_count is the number of names whose register returned
\* Ok, has_service is true for exactly those names, and get_service
\* returns the service that was registered with the name and None for every
\* other name.
C35_RegisterRejectsDuplicates ==
    [][(registry'.op = "register")
         => /\ has_service(registry, registry'.arg)
                 => /\ registry'.res = "ServiceAlreadyRegistered"
                    /\ registry'.services = registry.services
            /\ service_count(registry') = Cardinality({e.name : e \in registry'.done})
            /\ \A name \in ServiceNames :
                 /\ has_service(registry', name) <=> name \in {e.name : e \in registry'.done}
                 /\ \A id \in 1 .. MaxServices :
                      get_service(registry', name) = id
                          <=> [name |-> name, id |-> id] \in registry'.done
                 /\ get_service(registry', name) = None
                          <=> name \notin {e.name : e \in registry'.done}]_vars

\* a second service was refused under a name that is held, with another
\* name registered beside it
C35_Witness ==
    /\ registry.op = "register"
    /\ registry.res = "ServiceAlreadyRegistered"
    /\ registry.arg = "activity"
    /\ service_count(registry) = 2
    /\ get_service(registry, "activity") = 1


\* ------------------------------------------------------------------ C32
\* the candidates launch_init looked for, in the order it looked
InitProbes(tr) == SelectSeq(tr, LAMBDA e : e.k = "init_exists")

\* C32: start() looks for the init binary at /init, /system/bin/init and
\* /bin/init in that order and stops at the first that exists: a candidate
\* is looked at only when every earlier one is absent, the binary that is
\* spawned is the one found, and when all three are absent start() fails
\* with no process spawned.
C32_FirstExistingInitWins ==
    [][(last'.op = "start")
         => LET tr == last'.tr
                probes == InitProbes(tr)
                n == Len(probes)
            IN  /\ n <= Len(InitPaths)
                /\ \A i \in 1 .. n :
                     /\ probes[i].t = InitPaths[i]
                     /\ i < n => ~probes[i].ok
                /\ \A i \in 1 .. Len(tr) :
                     tr[i].k = "spawn"
                       => /\ n > 0 /\ probes[n].ok
                          /\ tr[i].ok => tr[i].t = probes[n].t
                /\ (n = Len(InitPaths) /\ ~probes[n].ok)
                     => /\ last'.res = "ErrNoInit"
                        /\ ~HasK(tr, "spawn")
                        /\ kids' = kids
                        /\ w'.proc = w.proc
                        /\ c'.init_pid = c.init_pid]_vars

\* /init is absent and /system/bin/init is what start() spawned
C32_Witness ==
    /\ last.op = "start"
    /\ last.res = "Ok"
    /\ Len(InitProbes(last.tr)) = 2
    /\ \E i \in 1 .. Len(last.tr) :
         last.tr[i].k = "spawn" /\ last.tr[i].ok /\ last.tr[i].t = "/system/bin/init"


\* ------------------------------------------------------------------ C33
\* what a start() does to the pid-file: nothing when it fails; when it
\* changes the file, it returned Ok, the spawned process passed the
\* is_running probe, and the file holds the pid of that process
StartWritesPidOfProbedInit ==
    LET tr == last'.tr
    IN  /\ last'.res # "Ok" => w'.pidFile = w.pidFile /\ ~HasK(tr, "write_pid_file")
        /\ \A i \in 1 .. Len(tr) :
             (tr[i].k = "write_pid_file" /\ tr[i].ok)
               => /\ last'.res = "Ok"
                  /\ \E j \in 1 .. i - 1 : tr[j].k = "spawn" /\ tr[j].ok /\ tr[j].p = tr[i].p
                  /\ \E j \in 1 .. i - 1 : tr[j].k = "is_running" /\ tr[j].ok /\ tr[j].p = tr[i].p
                  /\ w'.pidFile = tr[i].p
                  /\ c'.init_pid = tr[i].p
        /\ w'.pidFile # w.pidFile => \E i \in 1 .. Len(tr) : tr[i].k = "write_pid_file" /\ tr[i].ok

\* no operation but start() and stop() (or the discard that runs stop())
\* touches the pid-file
OthersLeavePidFile == last'.op \notin {"start", "stop", "drop"} => w'.pidFile = w.pidFile

\* C33 (as claimed): the pid-file is written only by a start() whose spawned
\* process passed the liveness probe and then holds that pid; a start() that
\* fails writes no pid-file; after stop() returns there is no pid-file.
C33_PidFileGoneAfterStop ==
    [][/\ last'.op = "start" => StartWritesPidOfProbedInit
       /\ OthersLeavePidFile
       /\ last'.op = "stop" => w'.pidFile = None]_vars

\* C33 (amended): as claimed for start(); stop() on a Container with a
\* pid-file configured attempts to remove the file as its last step and the
\* file is gone unless that removal failed, which stop() ignores; stop() on
\* a Container with no pid-file configured leaves the file alone.
C33_PidFileRemovalAttemptedByStop ==
    [][/\ last'.op = "start" => StartWritesPidOfProbedInit
       /\ OthersLeavePidFile
       /\ last'.op = "stop"
            => LET tr == last'.tr
               IN  IF c.pid_file
                   THEN /\ Len(tr) > 0
                        /\ tr[Len(tr)].k = "remove_pid_file"
                        /\ tr[Len(tr)].ok => w'.pidFile = None
                        /\ ~tr[Len(tr)].ok => w'.pidFile = w.pidFile
                   ELSE w'.pidFile = w.pidFile /\ ~HasK(tr, "remove_pid_file")]_vars

\* a stop() that could not remove the pid-file a start() of the same
\* Container had written
C33_Witness ==
    /\ last.op = "stop"
    /\ last.res = "Ok"
    /\ HasK(last.tr, "SIGTERM")
    /\ ~last.tr[Len(last.tr)].ok
    /\ w.pidFile # None
    /\ w.pidFile \in kids


\* ------------------------------------------------------------------ C34
\* a call of wait_for_boot that is under way returns
WaitForBootReturns == (wfb.pc # "idle") ~> (wfb.pc = "idle")

\* C34 (as claimed): with every exec_command call returning, a call of
\* wait_for_boot returns, and it returns no later than one poll interval
\* after the deadline.
C34_ReturnsWithinOnePollOfDeadline ==
    /\ WaitForBootReturns
    /\ [](wfb.pc # "idle" \/ wfb.res # "None"
            => wfb.elapsed <= wfb.timeout + PollInterval)

\* C34 (amended): with every exec_command call returning, a call of
\* wait_for_boot returns; it returns the timeout error in the first pass
\* that starts after the deadline, which is no later than one poll interval
\* and the time of one exec_command call after the deadline.
C34_ReturnsWithinOnePollAndExecOfDeadline ==
    /\ WaitForBootReturns
    /\ [](wfb.pc # "idle" \/ wfb.res # "None"
            => wfb.elapsed <= wfb.timeout + PollInterval + MaxExecSecs)
    /\ [][(wfb.pc = "loop" /\ wfb.elapsed > wfb.timeout /\ wfb' # wfb)
            => (wfb'.pc = "idle" /\ wfb'.res = "ErrTimeout"
                /\ wfb'.elapsed = wfb.elapsed)]_vars

\* a call that returned the timeout error later than one poll interval
\* after its deadline, after two polls
C34_Witness ==
    /\ wfb.pc = "idle"
    /\ wfb.res = "ErrTimeout"
    /\ wfb.polls = 2
    /\ wfb.elapsed > wfb.timeout + PollInterval


\* ------------------------------------------------------------------ C36
\* this step is a new() that mounted binderfs and then failed to open the
\* control device or to create a device
NewFailedAfterMount ==
    /\ bfs'.made = bfs.made + 1
    /\ bfs'.op = "new"
    /\ bfs'.res \in {"ErrOpen", "ErrCreateDevice"}
    /\ HasOk(bfs'.tr, "mount", "binder")

\* C36 (as claimed): a new() that fails after it has mounted binderfs
\* unmounts before it returns and leaves no binderfs mount behind.
C36_FailedNewLeavesNoMount ==
    [][NewFailedAfterMount
         => /\ HasK(bfs'.tr, "umount")
            /\ bfs'.kmnt = bfs.kmnt]_vars

\* C36 (amended): a new() that fails after it has mounted binderfs calls
\* umount once, after the step that failed and before it returns, and the
\* instance is gone; the mount is left behind exactly when that umount
\* fails, which is only printed as a warning.
C36_FailedNewAttemptsUnmount ==
    [][NewFailedAfterMount
         => LET tr == bfs'.tr
                n == Len(tr)
            IN  /\ tr[n].k = "umount"
                /\ ~tr[n - 1].ok /\ tr[n - 1].k \in {"open", "ioctl"}
                /\ \A i \in 1 .. n - 1 : tr[i].k # "umount"
                /\ bfs'.pc = "gone"
                /\ bfs'.kmnt = IF tr[n].ok THEN bfs.kmnt ELSE bfs.kmnt + 1
                /\ bfs'.res \in {"ErrOpen", "ErrCreateDevice"}]_vars

\* a new() whose second device could not be created and whose umount on the
\* way out failed: the mount is still there
C36_Witness ==
    /\ bfs.op = "new"
    /\ bfs.res = "ErrCreateDevice"
    /\ bfs.pc = "gone"
    /\ bfs.devices = <<"binder">>
    /\ HasK(bfs.tr, "umount")
    /\ bfs.kmnt = 1


\* ------------------------------------------------------------------ C37
\* a signal was delivered with both handlers installed
SignalAfterHandlers ==
    \E i \in 1 .. Len(sig.delivered) :
        /\ sig.delivered[i].handled
        /\ sig.delivered[i].at \in {"store", "load", "sleep"}

\* C37: in the run flow, a SIGINT or SIGTERM delivered once both handlers
\* are installed makes wait_for_signal return, whatever the moment of the
\* delivery, and what run_app does next is container.stop().
C37_SignalAfterHandlersStopsContainer ==
    /\ SignalAfterHandlers ~> (sig.pc = "returned")
    /\ [](sig.pc = "returned" => run_app \in {"stop", "drop", "done"})
    /\ [][(run_app = "stop" /\ run_app' # "stop") => last'.op = "stop"]_vars


\* ------------------------------------------------------------------ C38
\* C38: every SIGTERM and SIGKILL that stop() sends, called directly or by
\* the discard, goes to the pid of a process of this container (the host
\* processes of the model are the container's init processes, of this
\* invocation or of an earlier one) that has not been reaped when stop() is
\* called.
C38_SignalsOnlyToUnreapedInit ==
    [][(last'.op \in {"stop", "drop"})
         => \A i \in 1 .. Len(last'.tr) :
               last'.tr[i].k \in {"SIGTERM", "SIGKILL"}
                 => /\ last'.tr[i].p \in Pids
                    /\ w.proc[last'.tr[i].p] \in {"alive", "zombie"}]_vars


\* ------------------------------------------------------------------ C39
\* an unmount of the target was attempted in this trace and no tool succeeded
UnmountFailed(tr, target) == Tried(tr, target) /\ ~Undone(tr, target)

\* C39: after a stop(), a mounted flag is set exactly when the unmount of
\* that target failed in it; a stop() or a discard that directly follows
\* sends no signal, runs the unmount tools for exactly the targets whose flag
\* is still set (for none when no unmount failed) and returns Ok.
C39_StopIsIdempotent ==
    /\ [][(last'.op = "stop")
            => /\ c'.init_pid = None
               /\ \A t \in Targets : Flag(c', t) <=> UnmountFailed(last'.tr, t)]_vars
    /\ [][(last.op = "stop" /\ last'.op \in {"stop", "drop"})
            => /\ last'.res = "Ok"
               /\ ~HasK(last'.tr, "SIGTERM")
               /\ ~HasK(last'.tr, "SIGKILL")
               /\ \A t \in Targets : Tried(last'.tr, t) <=> Flag(c, t)]_vars

\* a stop() that retried the vendor unmount alone: the system flag is only
\* clear beside a set vendor flag after an earlier stop() that unmounted the
\* system image and failed on the vendor image
C39_Witness ==
    /\ last.op = "stop"
    /\ Tried(last.tr, "vendor")
    /\ ~Tried(last.tr, "system")
    /\ ~HasK(last.tr, "SIGTERM")


\* ------------------------------------------------------------------ C40
\* C40: between operations, every process spawned by this Container's
\* start() that is still running is the one recorded in init_pid (stop()
\* signals the pid it takes out of init_pid, and a process it has signalled
\* no longer runs); and a start() on a Container that tracks a running
\* process leaves init_pid as it was.
C40_NoSpawnedProcessOrphaned ==
    /\ [](\A p \in kids : w.proc[p] = "alive" => c.init_pid = p)
    /\ [][(last'.op = "start" /\ LiveTracked) => c'.init_pid = c.init_pid]_vars


====
